---- MODULE Spec2Model ----
(***************************************************************************)
(* Coral8 server: the request handlers of server/routes.ts over the       *)
(* in-memory store MemStorage, with the labor index of                     *)
(* client/src/lib/labor-index.ts.                                          *)
(*                                                                         *)
(* Every handler is an async function over the IStorage interface.  A     *)
(* storage method does its work when it is called; the handler then        *)
(* suspends at the await and other requests may run before it resumes.    *)
(* One action of the model is one such uninterrupted piece of a handler.  *)
(* The clock counts whole hours and moves only between requests.          *)
(*                                                                         *)
(* Numbers.  A JavaScript number that is a decimal with two places is a    *)
(* record [kind |-> "number", v |-> hundredths].  A balance, which decay   *)
(* multiplies by powers of 0.99, is kept exactly as a polynomial in 0.99:  *)
(* a function from exponents to coefficients in hundredths.                *)
(* A string is a sequence of characters; a name that is never read         *)
(* character by character is a sequence of one element.                    *)
(***************************************************************************)
EXTENDS Integers, Sequences, FiniteSets, TLC

VARIABLES
    now,                 \* the clock, in hours (Date.now())
    nReq, nVote,         \* requests received so far: labor-log and decay, vote
    laborLogs,           \* MemStorage.laborLogs, in insertion order
    tokenBalances,       \* MemStorage.tokenBalances: userId -> row
    userStats,           \* MemStorage.userStats: userId -> row
    governanceProposals, \* MemStorage.governanceProposals: id -> row
    votes,               \* MemStorage.votes, in insertion order
    pc,                  \* per request slot: where its handler is suspended
    req,                 \* per request slot: the request (endpoint, params, body)
    loc,                 \* per request slot: the handler's local variables
    alone,               \* per request slot: no other request has been in flight
                         \* since it arrived
    snap,                \* per request slot: the store as it was when the request arrived
    last,                \* the last exchange completed: request, response, the store
                         \* at its arrival; <<>> once another request has arrived
    prevDecay,           \* the decay last applied by a request that ran alone; <<>>
                         \* once the clock moved or a labor log was posted
    navigatorOnLine,     \* the browser: navigator.onLine
    mounted,             \* useOffline: <<>>, or the state of its first render,
                         \* which the handlers of the [] effects close over
    state,               \* useOffline: the React state
    localStorage,        \* the parsed item coral8_offline_data; <<>> when absent
    runs,                \* per sync slot: a syncPendingActions call suspended at
                         \* an await fetch
    sent,                \* per action id: the fetch calls made for it so far
    nAction, nSync,      \* actions queued and syncPendingActions calls so far
    sessions,            \* AuthService: the rows of the sessions table
    issued,              \* AuthService: the tokens createSession has returned
    revoked,             \* AuthService: the tokens whose logout has completed
    calls,               \* AuthService: per slot, a call suspended at an await
    returned,            \* AuthService: the call that returned last; <<>> at first
    nCall                \* AuthService: calls made so far

clientVars == <<navigatorOnLine, mounted, state, localStorage, runs,
                sent, nAction, nSync>>

authVars == <<sessions, issued, revoked, calls, returned, nCall>>

vars == <<now, nReq, nVote, laborLogs, tokenBalances, userStats,
          governanceProposals, votes, pc, req, loc, alone, snap, last, prevDecay,
          clientVars, authVars>>

store == <<laborLogs, tokenBalances, userStats, governanceProposals, votes>>

--------------------------------------------------------------------------
(* Bounds of the model *)

MaxRequests == 2
MaxVote == 3
MaxNow == 54
TickSteps == {24, 30}
Slots == {1, 2}

--------------------------------------------------------------------------
(* JavaScript values *)

JSNum(v) == [kind |-> "number", v |-> v]
JSNaN == [kind |-> "NaN", v |-> 0]
JSFunction == [kind |-> "function", v |-> 0]

Digits == <<"0", "1", "2", "3", "4", "5", "6", "7", "8", "9">>

IsDigit(c) == \E i \in 1..10 : Digits[i] = c

DigitVal(c) == (CHOOSE i \in 1..10 : Digits[i] = c) - 1

RECURSIVE DigitPrefixLen(_)
DigitPrefixLen(s) ==
    IF s = <<>> \/ ~IsDigit(Head(s)) THEN 0 ELSE 1 + DigitPrefixLen(Tail(s))

RECURSIVE DigitsVal(_)
DigitsVal(s) ==
    IF s = <<>> THEN 0
    ELSE 10 * DigitsVal(SubSeq(s, 1, Len(s) - 1)) + DigitVal(s[Len(s)])

RECURSIVE SkipWhite(_)
SkipWhite(s) == IF s # <<>> /\ Head(s) = " " THEN SkipWhite(Tail(s)) ELSE s

\* parseFloat: leading white space, an optional sign, digits, an optional
\* fraction; what follows is ignored; NaN when there is no digit.  The value is
\* kept in hundredths (the strings of the model have at most two decimals).
parseFloat(str) ==
    LET s0 == SkipWhite(str)
        signed == s0 # <<>> /\ Head(s0) \in {"-", "+"}
        neg == s0 # <<>> /\ Head(s0) = "-"
        s1 == IF signed THEN Tail(s0) ELSE s0
        ni == DigitPrefixLen(s1)
        ip == SubSeq(s1, 1, ni)
        r1 == SubSeq(s1, ni + 1, Len(s1))
        dot == r1 # <<>> /\ Head(r1) = "."
        r2 == IF dot THEN Tail(r1) ELSE <<>>
        nf == DigitPrefixLen(r2)
        fp == SubSeq(r2, 1, IF nf > 2 THEN 2 ELSE nf)
        frac == IF Len(fp) = 0 THEN 0
                ELSE IF Len(fp) = 1 THEN 10 * DigitsVal(fp) ELSE DigitsVal(fp)
        mag == 100 * DigitsVal(ip) + frac
    IN  IF ni + nf = 0 THEN JSNaN ELSE JSNum(IF neg THEN 0 - mag ELSE mag)

RECURSIVE NatToString(_)
NatToString(n) ==
    IF n < 10 THEN <<Digits[n + 1]>>
    ELSE NatToString(n \div 10) \o <<Digits[(n % 10) + 1]>>

\* Number.prototype.toString of a number with two decimals, and
\* Function.prototype.toString.
toString(x) ==
    IF x.kind = "NaN" THEN <<"N", "a", "N">>
    ELSE IF x.kind = "function" THEN <<"function Object() { [native code] }">>
    ELSE LET mag == IF x.v < 0 THEN 0 - x.v ELSE x.v
             f == mag % 100
             fs == IF f = 0 THEN <<>>
                   ELSE IF f % 10 = 0 THEN <<".", Digits[(f \div 10) + 1]>>
                   ELSE <<".", Digits[(f \div 10) + 1], Digits[(f % 10) + 1]>>
         IN  (IF x.v < 0 THEN <<"-">> ELSE <<>>) \o NatToString(mag \div 100) \o fs

--------------------------------------------------------------------------
(* labor-index.ts *)

LABOR_INDEX ==
    [k \in {<<"Art Creation">>, <<"Care Work">>, <<"Teaching">>,
            <<"Community Building">>, <<"Cultural Preservation">>,
            <<"Environmental Work">>, <<"Healing & Wellness">>,
            <<"Traditional Crafts">>, <<"Storytelling">>, <<"Food Preparation">>} |->
        CASE k = <<"Art Creation">> -> 180
          [] k = <<"Care Work">> -> 200
          [] k = <<"Teaching">> -> 190
          [] k = <<"Community Building">> -> 170
          [] k = <<"Cultural Preservation">> -> 210
          [] k = <<"Environmental Work">> -> 160
          [] k = <<"Healing & Wellness">> -> 180
          [] k = <<"Traditional Crafts">> -> 190
          [] k = <<"Storytelling">> -> 170
          [] k = <<"Food Preparation">> -> 150]

\* LABOR_INDEX is an object literal: a lookup of a name that Object.prototype
\* defines finds the inherited member, a function.
ObjectPrototypeKeys == {<<"constructor">>, <<"toString">>, <<"valueOf">>,
                        <<"hasOwnProperty">>}

getLaborMultiplier(laborType) ==
    IF laborType \in DOMAIN LABOR_INDEX THEN JSNum(LABOR_INDEX[laborType])
    ELSE IF laborType \in ObjectPrototypeKeys THEN JSFunction
    ELSE JSNum(100)

baseRate == 11

\* IEEE 754 double arithmetic, as far as calculateCOWTokens needs it.  A
\* natural number of any size is a sequence of limbs in base 32768, the
\* least significant first, without leading zero limbs; a double that is not
\* negative is [m |-> mantissa below 2^53, e |-> exponent]: m * 2^e.

RECURSIVE Pow2(_)
Pow2(n) == IF n = 0 THEN 1 ELSE 2 * Pow2(n - 1)

RECURSIVE BitLen(_)
BitLen(x) == IF x = 0 THEN 0 ELSE 1 + BitLen(x \div 2)

RECURSIVE BigNorm(_)
BigNorm(a) ==
    IF a # <<>> /\ a[Len(a)] = 0 THEN BigNorm(SubSeq(a, 1, Len(a) - 1)) ELSE a

RECURSIVE BigMulSmall(_, _, _)
BigMulSmall(a, k, carry) ==
    IF a = <<>> THEN (IF carry = 0 THEN <<>> ELSE <<carry>>)
    ELSE LET t == Head(a) * k + carry
         IN  <<t % 32768>> \o BigMulSmall(Tail(a), k, t \div 32768)

RECURSIVE BigAdd(_, _, _)
BigAdd(a, b, carry) ==
    IF a = <<>> /\ b = <<>> THEN (IF carry = 0 THEN <<>> ELSE <<carry>>)
    ELSE LET t == (IF a = <<>> THEN 0 ELSE Head(a))
                  + (IF b = <<>> THEN 0 ELSE Head(b)) + carry
         IN  <<t % 32768>> \o BigAdd(IF a = <<>> THEN <<>> ELSE Tail(a),
                                     IF b = <<>> THEN <<>> ELSE Tail(b),
                                     t \div 32768)

BigShiftLimbs(a, n) == IF a = <<>> THEN <<>> ELSE [i \in 1..n |-> 0] \o a

RECURSIVE BigMul(_, _)
BigMul(a, b) ==
    IF a = <<>> \/ b = <<>> THEN <<>>
    ELSE BigAdd(BigMulSmall(a, Head(b), 0), BigShiftLimbs(BigMul(a, Tail(b)), 1), 0)

\* quotient (with leading zero limbs) and remainder of a division by d <= 32768
RECURSIVE BigDivSmall(_, _)
BigDivSmall(a, d) ==
    IF a = <<>> THEN [q |-> <<>>, r |-> 0]
    ELSE LET hi == BigDivSmall(Tail(a), d)
             t == hi.r * 32768 + Head(a)
         IN  [q |-> <<t \div d>> \o hi.q, r |-> t % d]

BigBitLen(a) == IF a = <<>> THEN 0 ELSE 15 * (Len(a) - 1) + BitLen(a[Len(a)])

BigShiftLeft(a, n) == BigShiftLimbs(BigMulSmall(a, Pow2(n % 15), 0), n \div 15)

\* floor(a / 2^n), and whether bits were lost
BigShiftRight(a, n) ==
    LET limbs == n \div 15
        low == SubSeq(a, 1, IF limbs < Len(a) THEN limbs ELSE Len(a))
        d == BigDivSmall(SubSeq(a, limbs + 1, Len(a)), Pow2(n % 15))
    IN  [q |-> BigNorm(d.q), lost |-> d.r # 0 \/ \E i \in 1..Len(low) : low[i] # 0]

BigOdd(a) == a # <<>> /\ a[1] % 2 = 1

\* a / 2^n rounded to the nearest natural number, a tie to the even one
BigRoundShift(a, n) ==
    IF n = 0 THEN a
    ELSE LET above == BigShiftRight(a, n - 1)
             q == BigShiftRight(above.q, 1).q
         IN  IF BigOdd(above.q) /\ (above.lost \/ BigOdd(q))
             THEN BigAdd(q, <<1>>, 0) ELSE q

\* the double nearest to p * 2^e
DblRound(p, e) ==
    LET n == BigBitLen(p) - 53
    IN  IF n <= 0 THEN [m |-> p, e |-> e]
        ELSE LET m == BigRoundShift(p, n)
             IN  IF BigBitLen(m) > 53
                 THEN [m |-> BigShiftRight(m, 1).q, e |-> e + n + 1]
                 ELSE [m |-> m, e |-> e + n]

\* the double a decimal literal with two places denotes: the one nearest to
\* n / 100 (for n below 32768), a tie to the even mantissa
DblOfHundredths(n) ==
    IF n = 0 THEN [m |-> <<>>, e |-> 0]
    ELSE LET k0 == 60 - BitLen(n)
             d0 == BigDivSmall(BigShiftLeft(<<n>>, k0), 100)
             k == IF BigBitLen(BigNorm(d0.q)) > 53 THEN k0 - 1 ELSE k0
             d == IF k = k0 THEN d0 ELSE BigDivSmall(BigShiftLeft(<<n>>, k), 100)
             q == BigNorm(d.q)
             up == 2 * d.r > 100 \/ (2 * d.r = 100 /\ BigOdd(q))
         IN  DblRound(IF up THEN BigAdd(q, <<1>>, 0) ELSE q, 0 - k)

DblMul(x, y) == DblRound(BigMul(x.m, y.m), x.e + y.e)

DblMulInt(x, k) == DblRound(BigMulSmall(x.m, k, 0), x.e)

BigToInt(a) ==
    IF a = <<>> THEN 0 ELSE IF Len(a) = 1 THEN a[1] ELSE a[1] + 32768 * a[2]

\* Math.round of x, or of -x when negative: the nearest integer, a tie to the
\* one toward plus infinity.  The result is the magnitude.
MathRound(x, negative) ==
    IF x.e >= 0 THEN BigToInt(BigShiftLeft(x.m, x.e))
    ELSE LET n == 0 - x.e
             t == BigShiftRight(BigAdd(x.m, BigShiftLeft(<<1>>, n - 1), 0), n)
         IN  IF negative /\ ~t.lost THEN BigToInt(t.q) - 1 ELSE BigToInt(t.q)

calculateCOWTokens_Divided(hoursWorked, multiplier) ==
    IF hoursWorked.kind # "number" \/ multiplier.kind # "number" THEN JSNaN
    ELSE JSNum((hoursWorked.v * baseRate * 100) \div multiplier.v)

\* Math.round((hoursWorked * baseRate * multiplier) * 100) / 100, in doubles.
\* hoursWorked and multiplier are given in hundredths and so is the result:
\* the quotient of the rounded integer by 100 is the double that prints with
\* at most two decimals.
calculateCOWTokens(hoursWorked, multiplier) ==
    IF hoursWorked.kind # "number" \/ multiplier.kind # "number" THEN JSNaN
    ELSE LET negative == (hoursWorked.v < 0) # (multiplier.v < 0)
             h == DblOfHundredths(IF hoursWorked.v < 0 THEN 0 - hoursWorked.v
                                  ELSE hoursWorked.v)
             m == DblOfHundredths(IF multiplier.v < 0 THEN 0 - multiplier.v
                                  ELSE multiplier.v)
             x == DblMulInt(DblMul(DblMulInt(h, baseRate), m), 100)
             r == MathRound(x, negative)
         IN  JSNum(IF negative THEN 0 - r ELSE r)

--------------------------------------------------------------------------
(* Balances: exact values  sum over e of t[e]/100 * 0.99^e, or NaN *)

BalNaN == [nan |-> TRUE, t |-> [e \in {} |-> 0]]

BalNorm(f) == [nan |-> FALSE, t |-> [e \in {d \in DOMAIN f : f[d] # 0} |-> f[e]]]

\* parseFloat(field || "0") of a stored balance: the field holds the toString
\* of a number, which parseFloat reads back as the same number.
BalOf(x) == IF x.kind # "number" THEN BalNaN ELSE BalNorm([e \in {0} |-> x.v])

BalAdd(a, b) ==
    IF a.nan \/ b.nan THEN BalNaN
    ELSE LET co(p, e) == IF e \in DOMAIN p.t THEN p.t[e] ELSE 0
         IN  BalNorm([e \in DOMAIN a.t \cup DOMAIN b.t |-> co(a, e) + co(b, e)])

\* a * Math.pow(1 - 0.01, k)
BalDecay(a, k) ==
    IF a.nan THEN BalNaN
    ELSE BalNorm([e \in {d + k : d \in DOMAIN a.t} |-> a.t[e - k]])

--------------------------------------------------------------------------
(* MemStorage *)

DefaultUser == <<"default-user">>

\* JSON values of a request body
Str(s) == [type |-> "string", s |-> s]
JNumber == [type |-> "number", s |-> <<>>]
JBool(b) == [type |-> "boolean", s |-> IF b THEN <<"true">> ELSE <<"false">>]

Idle == [kind |-> "none"]

Init ==
    /\ now = 0
    /\ nReq = 0 /\ nVote = 0
    /\ laborLogs = <<>>
    /\ tokenBalances = [u \in {DefaultUser} |->
            [cow1Balance |-> BalOf(JSNum(12570)),
             cow2Balance |-> BalOf(JSNum(8930)),
             cow3Balance |-> BalOf(JSNum(4210)),
             lastActive |-> 0]]
    /\ userStats = [u \in {DefaultUser} |->
            [focusScore |-> 8, monthlyEarnings |-> <<"1", "2", "4", "7">>]]
    /\ governanceProposals =
            [p \in {<<"proposal-1">>, <<"proposal-2">>} |->
                IF p = <<"proposal-1">>
                THEN [status |-> "active", votesYes |-> 180, votesNo |-> 54,
                      endTime |-> 48]
                ELSE [status |-> "voting", votesYes |-> 97, votesNo |-> 59,
                      endTime |-> 120]]
    /\ votes = <<>>
    /\ pc = [r \in Slots |-> "idle"]
    /\ req = [r \in Slots |-> Idle]
    /\ loc = [r \in Slots |-> Idle]
    /\ alone = [r \in Slots |-> FALSE]
    /\ snap = [r \in Slots |-> Idle]
    /\ last = <<>>
    /\ prevDecay = <<>>
    /\ navigatorOnLine = TRUE
    /\ mounted = <<>>
    /\ state = <<>>
    /\ localStorage = <<>>
    /\ runs = <<>>
    /\ sent = <<>>
    /\ nAction = 0 /\ nSync = 0
    /\ sessions = {}
    /\ calls = [k \in Slots |-> Idle]
    /\ returned = <<>>
    /\ nCall = 0
    /\ issued = {}
    /\ revoked = {}

InFlight(r) == pc[r] # "idle"

\* Slots are interchangeable: a request takes the first free one.
Free(r) == ~InFlight(r) /\ \A o \in Slots : ~InFlight(o) => ~(o < r)

Snapshot ==
    [laborLogs |-> laborLogs, tokenBalances |-> tokenBalances,
     userStats |-> userStats, governanceProposals |-> governanceProposals,
     votes |-> votes, now |-> now, prevDecay |-> prevDecay]

Response(status, message, data) ==
    [status |-> status, message |-> message, data |-> data]

\* A request arrives on a free slot and its handler reaches an await.
Arrive(r, request) ==
    /\ Free(r)
    /\ req' = [req EXCEPT ![r] = request]
    /\ alone' = [q \in Slots |-> q = r /\ \A o \in Slots : ~InFlight(o)]
    /\ snap' = [snap EXCEPT ![r] = Snapshot]
    /\ last' = <<>>

\* A request arrives and is answered before any await.
ArriveAndSend(r, request, response) ==
    /\ Free(r)
    /\ alone' = [q \in Slots |-> FALSE]
    /\ last' = <<[req |-> request, resp |-> response, snap |-> Snapshot,
                  alone |-> \A o \in Slots : ~InFlight(o)]>>
    /\ UNCHANGED <<pc, req, loc, snap>>

\* res.json / res.status(..).json of a handler that had been suspended
Send(r, response) ==
    /\ pc' = [pc EXCEPT ![r] = "idle"]
    /\ req' = [req EXCEPT ![r] = Idle]
    /\ loc' = [loc EXCEPT ![r] = Idle]
    /\ snap' = [snap EXCEPT ![r] = Idle]
    /\ alone' = [alone EXCEPT ![r] = FALSE]
    /\ last' = <<[req |-> req[r], resp |-> response, snap |-> snap[r],
                  alone |-> alone[r]]>>

\* { ...a, ...b }
Spread(a, b) ==
    [k \in DOMAIN a \cup DOMAIN b |-> IF k \in DOMAIN b THEN b[k] ELSE a[k]]

JSAdd(a, b) ==
    IF a.kind # "number" \/ b.kind # "number" THEN JSNaN ELSE JSNum(a.v + b.v)

--------------------------------------------------------------------------
(* shared/schema.ts: insertLaborLogSchema, a zod object schema.  laborType  *)
(* and hoursWorked are text columns that are not null: required strings;    *)
(* attestationUrl is a nullable text column: an optional string.  Keys the  *)
(* schema does not name (the omitted columns among them) are stripped.      *)

LaborLogSchemaKeys == {"laborType", "hoursWorked", "attestationUrl"}

insertLaborLogSchemaAccepts(body) ==
    /\ \A k \in {"laborType", "hoursWorked"} :
            k \in DOMAIN body /\ body[k].type = "string"
    /\ "attestationUrl" \in DOMAIN body => body["attestationUrl"].type = "string"

insertLaborLogSchemaParse(body) ==
    [k \in DOMAIN body \cap LaborLogSchemaKeys |-> body[k].s]

--------------------------------------------------------------------------
(* MemStorage methods *)

createLaborLog(laborLog) ==
    Spread(laborLog, [id |-> <<"log", Len(laborLogs) + 1>>, createdAt |-> now])

getTokenBalance(userId) ==
    IF userId \in DOMAIN tokenBalances THEN <<tokenBalances[userId]>> ELSE <<>>

\* updateTokenBalance throws when the user has no row
updateTokenBalanceThrows(userId) == userId \notin DOMAIN tokenBalances

updateTokenBalance_Stamp(userId, updates) ==
    [tokenBalances EXCEPT ![userId] = Spread(Spread(@, updates), [lastActive |-> now])]

\* { ...existing, ...updates, updatedAt }: lastActive changes only when the
\* updates name it.
updateTokenBalance(userId, updates) ==
    [tokenBalances EXCEPT ![userId] = Spread(@, updates)]

getUserStats(userId) ==
    IF userId \in DOMAIN userStats THEN <<userStats[userId]>> ELSE <<>>

updateUserStats(userId, stats) ==
    IF userId \notin DOMAIN userStats
    THEN [u \in DOMAIN userStats \cup {userId} |->
            IF u = userId
            THEN Spread([focusScore |-> 0, monthlyEarnings |-> <<"0">>], stats)
            ELSE userStats[u]]
    ELSE [userStats EXCEPT ![userId] = Spread(@, stats)]

--------------------------------------------------------------------------
(* POST /api/labor-logs *)

Min(a, b) == IF a < b THEN a ELSE b

creditedBalance_NoRefresh(currentBalance, cowTokensEarned) ==
    [cow1Balance |-> BalAdd(currentBalance.cow1Balance, BalOf(cowTokensEarned))]

creditedBalance_Replace(currentBalance, cowTokensEarned) ==
    [cow1Balance |-> BalOf(cowTokensEarned), lastActive |-> now]

\* The updates of the balance row: cow1Balance of the row that was read plus
\* the reward, and lastActive.
creditedBalance(currentBalance, cowTokensEarned) ==
    [cow1Balance |-> BalAdd(currentBalance.cow1Balance, BalOf(cowTokensEarned)),
     lastActive |-> now]

LaborLogRequest(body) == [kind |-> "labor", body |-> body]

\* From the arrival to the first await: the body is parsed, the reward is
\* computed and createLaborLog inserts the row.  A parse error is caught and
\* answered 400.
LaborLogStart(r, body) ==
    /\ nReq < MaxRequests
    /\ nReq' = nReq + 1
    /\ prevDecay' = <<>>
    /\ IF ~insertLaborLogSchemaAccepts(body)
       THEN /\ ArriveAndSend(r, LaborLogRequest(body),
                             Response(400, "Invalid labor log data", <<>>))
            /\ UNCHANGED laborLogs
       ELSE LET validatedData == insertLaborLogSchemaParse(body)
                multiplier == getLaborMultiplier(validatedData["laborType"])
                hoursWorked == parseFloat(validatedData["hoursWorked"])
                cowTokensEarned == calculateCOWTokens(hoursWorked, multiplier)
                proofHash == <<"proof_", now>>
                laborLog == createLaborLog(Spread(validatedData,
                                [userId |-> DefaultUser,
                                 cowTokensEarned |-> toString(cowTokensEarned),
                                 multiplier |-> toString(multiplier),
                                 proofHash |-> proofHash]))
            IN  /\ Arrive(r, LaborLogRequest(body))
                /\ laborLogs' = Append(laborLogs, laborLog)
                /\ loc' = [loc EXCEPT ![r] =
                            [kind |-> "labor", cowTokensEarned |-> cowTokensEarned,
                             laborLog |-> laborLog, currentBalance |-> <<>>,
                             currentStats |-> <<>>]]
                /\ pc' = [pc EXCEPT ![r] = "ll_getTokenBalance"]
    /\ UNCHANGED <<clientVars, authVars>>
    /\ UNCHANGED <<now, nVote, tokenBalances, userStats,
                   governanceProposals, votes>>

\* After createLaborLog: getTokenBalance reads the row.
LaborLogGetTokenBalance(r) ==
    /\ pc[r] = "ll_getTokenBalance"
    /\ loc' = [loc EXCEPT ![r].currentBalance = getTokenBalance(DefaultUser)]
    /\ pc' = [pc EXCEPT ![r] = "ll_updateTokenBalance"]
    /\ UNCHANGED <<clientVars, authVars>>
    /\ UNCHANGED <<now, nReq, nVote, store, req, alone, snap, last, prevDecay>>

LaborLogUpdateTokenBalance_Fresh(r) ==
    /\ pc[r] = "ll_updateTokenBalance"
    /\ IF loc[r].currentBalance # <<>>
       THEN IF updateTokenBalanceThrows(DefaultUser)
            THEN /\ Send(r, Response(400, "Invalid labor log data", <<>>))
                 /\ UNCHANGED tokenBalances
            ELSE /\ tokenBalances' = updateTokenBalance(DefaultUser,
                        creditedBalance(tokenBalances[DefaultUser],
                                        loc[r].cowTokensEarned))
                 /\ pc' = [pc EXCEPT ![r] = "ll_getUserStats"]
                 /\ UNCHANGED <<req, loc, alone, snap, last>>
       ELSE /\ loc' = [loc EXCEPT ![r].currentStats = getUserStats(DefaultUser)]
            /\ pc' = [pc EXCEPT ![r] = "ll_updateUserStats"]
            /\ UNCHANGED <<tokenBalances, req, alone, snap, last>>
    /\ UNCHANGED <<clientVars, authVars>>
    /\ UNCHANGED <<now, nReq, nVote, laborLogs, userStats,
                   governanceProposals, votes, prevDecay>>

\* After getTokenBalance: with a row, the new cow1Balance is computed from the
\* row that was read and written with lastActive; updateTokenBalance throwing
\* is caught and answered 400.  Without a row the handler goes on to
\* getUserStats at once.
LaborLogUpdateTokenBalance(r) ==
    /\ pc[r] = "ll_updateTokenBalance"
    /\ IF loc[r].currentBalance # <<>>
       THEN LET currentBalance == loc[r].currentBalance[1]
            IN  IF updateTokenBalanceThrows(DefaultUser)
                THEN /\ Send(r, Response(400, "Invalid labor log data", <<>>))
                     /\ UNCHANGED tokenBalances
                ELSE /\ tokenBalances' = updateTokenBalance(DefaultUser,
                            creditedBalance(currentBalance, loc[r].cowTokensEarned))
                     /\ pc' = [pc EXCEPT ![r] = "ll_getUserStats"]
                     /\ UNCHANGED <<req, loc, alone, snap, last>>
       ELSE /\ loc' = [loc EXCEPT ![r].currentStats = getUserStats(DefaultUser)]
            /\ pc' = [pc EXCEPT ![r] = "ll_updateUserStats"]
            /\ UNCHANGED <<tokenBalances, req, alone, snap, last>>
    /\ UNCHANGED <<clientVars, authVars>>
    /\ UNCHANGED <<now, nReq, nVote, laborLogs, userStats,
                   governanceProposals, votes, prevDecay>>

\* After updateTokenBalance: getUserStats reads the row.
LaborLogGetUserStats(r) ==
    /\ pc[r] = "ll_getUserStats"
    /\ loc' = [loc EXCEPT ![r].currentStats = getUserStats(DefaultUser)]
    /\ pc' = [pc EXCEPT ![r] = "ll_updateUserStats"]
    /\ UNCHANGED <<clientVars, authVars>>
    /\ UNCHANGED <<now, nReq, nVote, store, req, alone, snap, last, prevDecay>>

\* After getUserStats: with a row, updateUserStats writes the new earnings and
\* focus score; without one the created log is sent at once.
LaborLogUpdateUserStats(r) ==
    /\ pc[r] = "ll_updateUserStats"
    /\ IF loc[r].currentStats # <<>>
       THEN LET currentStats == loc[r].currentStats[1]
                newMonthlyEarnings == JSAdd(parseFloat(currentStats.monthlyEarnings),
                                            loc[r].cowTokensEarned)
                newFocusScore == Min(currentStats.focusScore + 1, 10)
            IN  /\ userStats' = updateUserStats(DefaultUser,
                        [monthlyEarnings |-> toString(newMonthlyEarnings),
                         focusScore |-> newFocusScore])
                /\ pc' = [pc EXCEPT ![r] = "ll_respond"]
                /\ UNCHANGED <<req, loc, alone, snap, last>>
       ELSE /\ Send(r, Response(200, "", <<loc[r].laborLog>>))
            /\ UNCHANGED userStats
    /\ UNCHANGED <<clientVars, authVars>>
    /\ UNCHANGED <<now, nReq, nVote, laborLogs, tokenBalances,
                   governanceProposals, votes, prevDecay>>

\* After updateUserStats: res.json(laborLog).
LaborLogRespond(r) ==
    /\ pc[r] = "ll_respond"
    /\ Send(r, Response(200, "", <<loc[r].laborLog>>))
    /\ UNCHANGED <<clientVars, authVars>>
    /\ UNCHANGED <<now, nReq, nVote, store, prevDecay>>

--------------------------------------------------------------------------
(* POST /api/decay *)

\* Math.pow(1 - decayRate, hoursOfDecay), as a value of the balance arithmetic
decayFactor(hours) == BalDecay(BalOf(JSNum(100)), hours)

DecayThreshold == 24

decayIsDue_AtThreshold(hoursSinceActive) == hoursSinceActive >= DecayThreshold

\* if (hoursSinceActive > 24)
decayIsDue(hoursSinceActive) == hoursSinceActive > DecayThreshold

hoursOfDecay_NoGrace(hoursSinceActive) == hoursSinceActive

\* const hoursOfDecay = hoursSinceActive - 24
hoursOfDecay(hoursSinceActive) == hoursSinceActive - DecayThreshold

decayedBalances_Touch(balance, hours) ==
    [cow1Balance |-> BalDecay(balance.cow1Balance, hours),
     cow2Balance |-> BalDecay(balance.cow2Balance, hours),
     cow3Balance |-> BalDecay(balance.cow3Balance, hours),
     lastActive |-> now]

\* The updates of the balance row: the three balances of the row that was
\* read, each times the factor.  lastActive is not among them.
decayedBalances(balance, hours) ==
    [cow1Balance |-> BalDecay(balance.cow1Balance, hours),
     cow2Balance |-> BalDecay(balance.cow2Balance, hours),
     cow3Balance |-> BalDecay(balance.cow3Balance, hours)]

DecayRequest == [kind |-> "decay"]

\* From the arrival to the first await: getTokenBalance reads the row.
DecayStart(r) ==
    /\ nReq < MaxRequests
    /\ Arrive(r, DecayRequest)
    /\ nReq' = nReq + 1
    /\ loc' = [loc EXCEPT ![r] = [kind |-> "decay",
                                  balance |-> getTokenBalance(DefaultUser),
                                  hoursOfDecay |-> 0]]
    /\ pc' = [pc EXCEPT ![r] = "dc_apply"]
    /\ UNCHANGED <<clientVars, authVars>>
    /\ UNCHANGED <<now, nVote, store, prevDecay>>

\* After getTokenBalance: no row is answered 404; at most 24 hours since
\* lastActive is answered with the no-op message; otherwise the three balances
\* of the row that was read are multiplied by the factor and written.
DecayApply(r) ==
    /\ pc[r] = "dc_apply"
    /\ IF loc[r].balance = <<>>
       THEN /\ Send(r, Response(404, "Balance not found", <<>>))
            /\ UNCHANGED tokenBalances
       ELSE LET balance == loc[r].balance[1]
                hoursSinceActive == now - balance.lastActive
                hours == hoursOfDecay(hoursSinceActive)
            IN  IF decayIsDue(hoursSinceActive)
                THEN IF updateTokenBalanceThrows(DefaultUser)
                     THEN /\ Send(r, Response(500, "Error applying decay", <<>>))
                          /\ UNCHANGED tokenBalances
                     ELSE /\ tokenBalances' = updateTokenBalance(DefaultUser,
                                decayedBalances(balance, hours))
                          /\ loc' = [loc EXCEPT ![r].hoursOfDecay = hours]
                          /\ pc' = [pc EXCEPT ![r] = "dc_respond"]
                          /\ UNCHANGED <<req, alone, snap, last>>
                ELSE /\ Send(r, Response(200, "No decay applied - user recently active",
                                         <<>>))
                     /\ UNCHANGED tokenBalances
    /\ UNCHANGED <<clientVars, authVars>>
    /\ UNCHANGED <<now, nReq, nVote, laborLogs, userStats,
                   governanceProposals, votes, prevDecay>>

\* After updateTokenBalance: the factor is sent.
DecayRespond(r) ==
    /\ pc[r] = "dc_respond"
    /\ Send(r, Response(200, "Decay applied",
                    <<[decayFactor |-> decayFactor(loc[r].hoursOfDecay),
                       hoursOfDecay |-> loc[r].hoursOfDecay]>>))
    /\ prevDecay' = IF alone[r]
                    THEN <<[before |-> loc[r].balance[1],
                            hoursOfDecay |-> loc[r].hoursOfDecay]>>
                    ELSE <<>>
    /\ UNCHANGED <<clientVars, authVars>>
    /\ UNCHANGED <<now, nReq, nVote, store>>

--------------------------------------------------------------------------
(* POST /api/proposals/:id/vote *)

createVote_Negated(vote) ==
    Spread(vote, [id |-> <<"vote", Len(votes) + 1>>, createdAt |-> now,
                  vote |-> ~vote.vote])

createVote(vote) ==
    Spread(vote, [id |-> <<"vote", Len(votes) + 1>>, createdAt |-> now])

UserVoteRows(userId, proposalId) ==
    {i \in 1..Len(votes) :
        votes[i].userId = userId /\ votes[i].proposalId = proposalId}

getUserVote_ById(userId, proposalId) ==
    LET found == {i \in 1..Len(votes) :
                    votes[i].userId = userId /\ votes[i].id = proposalId}
    IN  IF found = {} THEN <<>>
        ELSE <<votes[CHOOSE i \in found : \A j \in found : i <= j]>>

\* Array.find: the first row of the user on the proposal
getUserVote(userId, proposalId) ==
    LET found == UserVoteRows(userId, proposalId)
    IN  IF found = {} THEN <<>>
        ELSE <<votes[CHOOSE i \in found : \A j \in found : i <= j]>>

\* The Map returns the stored row object itself, which updateProposalVotes
\* changes in place: what the handler holds is a reference.
getProposal(id) == IF id \in DOMAIN governanceProposals THEN <<id>> ELSE <<>>

updateProposalVotes_Swapped(proposalId, votesYes, votesNo) ==
    IF proposalId \in DOMAIN governanceProposals
    THEN [governanceProposals EXCEPT ![proposalId] =
            Spread(@, [votesYes |-> votesNo, votesNo |-> votesYes])]
    ELSE governanceProposals

updateProposalVotes(proposalId, votesYes, votesNo) ==
    IF proposalId \in DOMAIN governanceProposals
    THEN [governanceProposals EXCEPT ![proposalId] =
            Spread(@, [votesYes |-> votesYes, votesNo |-> votesNo])]
    ELSE governanceProposals

VoteRequest(proposalId, vote) ==
    [kind |-> "vote", proposalId |-> proposalId, vote |-> vote]

\* From the arrival to the first await: a vote that is not a boolean is
\* answered 400; otherwise getUserVote looks for a vote of the user.
VoteStart(r, proposalId, vote) ==
    /\ nVote < MaxVote
    /\ nVote' = nVote + 1
    /\ IF vote.type # "boolean"
       THEN ArriveAndSend(r, VoteRequest(proposalId, vote),
                          Response(400, "Vote must be boolean", <<>>))
       ELSE /\ Arrive(r, VoteRequest(proposalId, vote))
            /\ loc' = [loc EXCEPT ![r] =
                        [kind |-> "vote",
                         existingVote |-> getUserVote(DefaultUser, proposalId),
                         proposal |-> <<>>, seen |-> <<>>]]
            /\ pc' = [pc EXCEPT ![r] = "v_createVote"]
    /\ UNCHANGED <<clientVars, authVars>>
    /\ UNCHANGED <<now, nReq, store, prevDecay>>

\* After getUserVote: an existing vote is answered 400; otherwise createVote
\* inserts the row.
VoteCreateVote(r) ==
    /\ pc[r] = "v_createVote"
    /\ IF loc[r].existingVote # <<>>
       THEN /\ Send(r, Response(400, "User has already voted on this proposal", <<>>))
            /\ UNCHANGED votes
       ELSE /\ votes' = Append(votes, createVote(
                    [userId |-> DefaultUser, proposalId |-> req[r].proposalId,
                     vote |-> req[r].vote.s = <<"true">>]))
            /\ pc' = [pc EXCEPT ![r] = "v_getProposal"]
            /\ UNCHANGED <<req, loc, alone, snap, last>>
    /\ UNCHANGED <<clientVars, authVars>>
    /\ UNCHANGED <<now, nReq, nVote, laborLogs, tokenBalances, userStats,
                   governanceProposals, prevDecay>>

\* After createVote: getProposal looks the proposal up.  seen keeps the
\* counters the row had at that moment, for the properties; the handler does
\* not copy them.
VoteGetProposal(r) ==
    /\ pc[r] = "v_getProposal"
    /\ loc' = [loc EXCEPT
                ![r].proposal = getProposal(req[r].proposalId),
                ![r].seen = IF req[r].proposalId \in DOMAIN governanceProposals
                            THEN <<governanceProposals[req[r].proposalId]>>
                            ELSE <<>>]
    /\ pc' = [pc EXCEPT ![r] = "v_updateProposalVotes"]
    /\ UNCHANGED <<clientVars, authVars>>
    /\ UNCHANGED <<now, nReq, nVote, store, req, alone, snap, last, prevDecay>>

VoteUpdateProposalVotes_Stale(r) ==
    /\ pc[r] = "v_updateProposalVotes"
    /\ IF loc[r].proposal # <<>>
       THEN LET proposal == loc[r].seen[1]
                vote == req[r].vote.s = <<"true">>
                newVotesYes == IF vote THEN proposal.votesYes + 1 ELSE proposal.votesYes
                newVotesNo == IF vote THEN proposal.votesNo ELSE proposal.votesNo + 1
            IN  /\ governanceProposals' =
                        updateProposalVotes(req[r].proposalId, newVotesYes, newVotesNo)
                /\ pc' = [pc EXCEPT ![r] = "v_respond"]
                /\ UNCHANGED <<req, loc, alone, snap, last>>
       ELSE /\ Send(r, Response(200, "Vote recorded successfully", <<>>))
            /\ UNCHANGED governanceProposals
    /\ UNCHANGED <<clientVars, authVars>>
    /\ UNCHANGED <<now, nReq, nVote, laborLogs, tokenBalances, userStats,
                   votes, prevDecay>>

\* After getProposal: with a proposal, its counters are read from the row and
\* the new totals written by updateProposalVotes; without one the success
\* message is sent at once.
VoteUpdateProposalVotes(r) ==
    /\ pc[r] = "v_updateProposalVotes"
    /\ IF loc[r].proposal # <<>>
       THEN LET proposal == governanceProposals[loc[r].proposal[1]]
                vote == req[r].vote.s = <<"true">>
                newVotesYes == IF vote THEN proposal.votesYes + 1 ELSE proposal.votesYes
                newVotesNo == IF vote THEN proposal.votesNo ELSE proposal.votesNo + 1
            IN  /\ governanceProposals' =
                        updateProposalVotes(req[r].proposalId, newVotesYes, newVotesNo)
                /\ pc' = [pc EXCEPT ![r] = "v_respond"]
                /\ UNCHANGED <<req, loc, alone, snap, last>>
       ELSE /\ Send(r, Response(200, "Vote recorded successfully", <<>>))
            /\ UNCHANGED governanceProposals
    /\ UNCHANGED <<clientVars, authVars>>
    /\ UNCHANGED <<now, nReq, nVote, laborLogs, tokenBalances, userStats,
                   votes, prevDecay>>

\* After updateProposalVotes: the success message is sent.
VoteRespond(r) ==
    /\ pc[r] = "v_respond"
    /\ Send(r, Response(200, "Vote recorded successfully", <<>>))
    /\ UNCHANGED <<clientVars, authVars>>
    /\ UNCHANGED <<now, nReq, nVote, store, prevDecay>>

--------------------------------------------------------------------------
(* The requests of the model *)

LaborBody(laborType, hoursWorked) ==
    [laborType |-> Str(laborType), hoursWorked |-> hoursWorked]

\* a body that also supplies the columns the schema omits
ForgedFields ==
    [userId |-> Str(<<"attacker">>), cowTokensEarned |-> Str(<<"9", "9", "9", "9">>),
     multiplier |-> Str(<<"9", "9">>), proofHash |-> Str(<<"forged">>)]

LaborBodies ==
    { LaborBody(<<"Teaching">>, Str(<<"5">>)),
      Spread(LaborBody(<<"Cultural Preservation">>, Str(<<"2", ".", "2", "5">>)),
             ForgedFields),
      LaborBody(<<"Gardening">>, Str(<<"-", "2", "4">>)),
      LaborBody(<<"Care Work">>, Str(<<"2", "5">>)),
      LaborBody(<<"constructor">>, Str(<<"a", "b", "c">>)),
      LaborBody(<<"Teaching">>, JNumber) }

VoteProposalIds == {<<"proposal-1">>, <<"proposal-2">>, <<"proposal-9">>}

VoteValues == {JBool(TRUE), JBool(FALSE), Str(<<"yes">>)}

\* The clock moves between requests: a request is over within the hour.
Tick(d) ==
    /\ \A r \in Slots : ~InFlight(r)
    /\ now + d <= MaxNow
    /\ now' = now + d
    /\ prevDecay' = <<>>
    /\ UNCHANGED <<clientVars, authVars>>
    /\ UNCHANGED <<nReq, nVote, store, pc, req, loc, alone, snap, last>>

\* The labor-log and decay endpoints, which share the balance row and the clock
LaborNext ==
    \/ \E d \in TickSteps : Tick(d)
    \/ \E r \in Slots :
        \/ \E body \in LaborBodies : LaborLogStart(r, body)
        \/ LaborLogGetTokenBalance(r)
        \/ LaborLogUpdateTokenBalance(r)
        \/ LaborLogGetUserStats(r)
        \/ LaborLogUpdateUserStats(r)
        \/ LaborLogRespond(r)
        \/ DecayStart(r)
        \/ DecayApply(r)
        \/ DecayRespond(r)

\* The vote endpoint, which shares nothing with them
VoteNext ==
    \E r \in Slots :
        \/ \E id \in VoteProposalIds, vote \in VoteValues : VoteStart(r, id, vote)
        \/ VoteCreateVote(r)
        \/ VoteGetProposal(r)
        \/ VoteUpdateProposalVotes(r)
        \/ VoteRespond(r)

Next == LaborNext \/ VoteNext

Spec == Init /\ [][Next]_vars

SpecLabor == Init /\ [][LaborNext]_vars

SpecVote == Init /\ [][VoteNext]_vars

--------------------------------------------------------------------------
(* Vocabulary of the properties *)

Exchanged(kind) == last # <<>> /\ last[1].req.kind = kind

\* hoursWorked of a body, read as the handler reads it, lies outside (0, 24]
HoursOutOfRange(body) ==
    /\ "hoursWorked" \in DOMAIN body
    /\ body["hoursWorked"].type = "string"
    /\ LET h == parseFloat(body["hoursWorked"].s)
       IN  h.kind # "number" \/ h.v <= 0 \/ h.v > 2400

\* 0.99^e in millionths, rounded down and rounded up
RECURSIVE Pow99Lo(_)
Pow99Lo(e) == IF e = 0 THEN 1000000 ELSE (Pow99Lo(e - 1) * 99) \div 100

RECURSIVE Pow99Hi(_)
Pow99Hi(e) == IF e = 0 THEN 1000000 ELSE (Pow99Hi(e - 1) * 99 + 99) \div 100

RECURSIVE SumOver(_, _)
SumOver(S, f) ==
    IF S = {} THEN 0
    ELSE LET x == CHOOSE y \in S : TRUE IN f[x] + SumOver(S \ {x}, f)

\* An upper bound of a balance, in hundred-thousandths: a positive coefficient
\* with 0.99^e rounded up, a negative one with it rounded down.
BalUpper(b) ==
    SumOver(DOMAIN b.t,
            [e \in DOMAIN b.t |->
                IF b.t[e] >= 0 THEN b.t[e] * ((Pow99Hi(e) + 999) \div 1000)
                ELSE b.t[e] * (Pow99Lo(e) \div 1000)])

BalNegative(b) == ~b.nan /\ BalUpper(b) < 0

BalanceFields == {"cow1Balance", "cow2Balance", "cow3Balance"}

--------------------------------------------------------------------------
(* Properties of POST /api/labor-logs *)

\* C1: every labor log that POST /api/labor-logs has persisted holds the
\* multiplier getLaborMultiplier gives for its laborType and, as
\* cowTokensEarned, hoursWorked x 11 x multiplier rounded to two decimals
\* (NaN when either is not a number), whatever else the body supplied: the
\* stored values are derived, and the stored userId is the handler's.
C1_LogFieldsDerived ==
    \A i \in 1..Len(laborLogs) :
        LET log == laborLogs[i]
            m == getLaborMultiplier(log.laborType)
            h == parseFloat(log.hoursWorked)
            earned == IF h.kind = "number" /\ m.kind = "number"
                      THEN JSNum((h.v * 11 * m.v + 50) \div 100)
                      ELSE JSNaN
        IN  /\ log.multiplier = toString(m)
            /\ log.cowTokensEarned = toString(earned)
            /\ log.userId = DefaultUser
            /\ log.proofHash # <<"forged">>

C3_OutOfRangeRejected ==
    /\ \A r \in Slots :
            InFlight(r) /\ req[r].kind = "labor" => ~HoursOutOfRange(req[r].body)
    /\ ( Exchanged("labor") /\ HoursOutOfRange(last[1].req.body) )
       => /\ last[1].resp.status = 400
          /\ last[1].alone =>
                /\ laborLogs = last[1].snap.laborLogs
                /\ tokenBalances = last[1].snap.tokenBalances
                /\ userStats = last[1].snap.userStats

\* C4: in every reachable state each of cow1Balance, cow2Balance and
\* cow3Balance of every user is a number that is at least 0.
C4_BalancesNonNegative ==
    \A u \in DOMAIN tokenBalances : \A f \in BalanceFields :
        ~tokenBalances[u][f].nan /\ ~BalNegative(tokenBalances[u][f])

--------------------------------------------------------------------------
(* Properties of POST /api/proposals/:id/vote *)

\* the user has a vote on the proposal among the rows vs
HasVoted(vs, userId, proposalId) ==
    \E i \in 1..Len(vs) : vs[i].userId = userId /\ vs[i].proposalId = proposalId

\* C5: a boolean vote that arrives when the user already has a Vote row on
\* the proposal is answered 400 "User has already voted on this proposal";
\* its handler returns at the existingVote test (it inserts no row and writes no
\* counter), and when it has answered alone the votes and the proposals are as
\* they were at its arrival.
C5_SecondVoteRejected ==
    /\ \A r \in Slots :
            ( /\ InFlight(r) /\ req[r].kind = "vote"
              /\ HasVoted(snap[r].votes, DefaultUser, req[r].proposalId) )
            => pc[r] = "v_createVote"
    /\ ( /\ Exchanged("vote")
         /\ last[1].req.vote.type = "boolean"
         /\ HasVoted(last[1].snap.votes, DefaultUser, last[1].req.proposalId) )
       => /\ last[1].resp.status = 400
          /\ last[1].resp.message = "User has already voted on this proposal"
          /\ last[1].alone =>
                /\ votes = last[1].snap.votes
                /\ governanceProposals = last[1].snap.governanceProposals

\* C5, its case: the user had voted yes on proposal-1, then voted no on it,
\* and the second vote was answered 400.
C5_Witness ==
    /\ Exchanged("vote")
    /\ last[1].alone
    /\ last[1].req.proposalId = <<"proposal-1">>
    /\ last[1].req.vote = JBool(FALSE)
    /\ Len(last[1].snap.votes) = 1
    /\ last[1].snap.votes[1].proposalId = <<"proposal-1">>
    /\ last[1].snap.votes[1].vote = TRUE
    /\ last[1].resp.status = 400
    /\ Len(votes) = 1

\* C6: in every reachable state there is at most one Vote row for a pair of
\* userId and proposalId, two requests of the same user on the same proposal
\* being in flight at once included.
C6_OneVotePerUserAndProposal ==
    \A i, j \in 1..Len(votes) :
        ( votes[i].userId = votes[j].userId
          /\ votes[i].proposalId = votes[j].proposalId ) => i = j

\* C7: a boolean vote on an existing proposal on which the user had no vote,
\* handled with no other request in flight, is answered 200, has inserted
\* exactly one Vote row (the user's, on that proposal, with that value) and has
\* raised exactly one counter of the proposal by one: votesYes for true,
\* votesNo for false; every other proposal is as it was.
C7_VoteCounted ==
    ( /\ Exchanged("vote")
      /\ last[1].alone
      /\ last[1].req.vote.type = "boolean"
      /\ last[1].req.proposalId \in DOMAIN last[1].snap.governanceProposals
      /\ ~HasVoted(last[1].snap.votes, DefaultUser, last[1].req.proposalId) )
    => LET id == last[1].req.proposalId
           yes == last[1].req.vote = JBool(TRUE)
           before == last[1].snap.governanceProposals
           row == votes[Len(votes)]
       IN  /\ last[1].resp.status = 200
           /\ Len(votes) = Len(last[1].snap.votes) + 1
           /\ SubSeq(votes, 1, Len(votes) - 1) = last[1].snap.votes
           /\ row.userId = DefaultUser /\ row.proposalId = id /\ row.vote = yes
           /\ governanceProposals[id].votesYes =
                before[id].votesYes + (IF yes THEN 1 ELSE 0)
           /\ governanceProposals[id].votesNo =
                before[id].votesNo + (IF yes THEN 0 ELSE 1)
           /\ \A p \in DOMAIN governanceProposals \ {id} :
                governanceProposals[p] = before[p]

\* C7, its case: a first vote, yes, on proposal-1: one row, votesYes 180 -> 181,
\* votesNo still 54.
C7_Witness ==
    /\ Exchanged("vote")
    /\ last[1].alone
    /\ last[1].req = VoteRequest(<<"proposal-1">>, JBool(TRUE))
    /\ last[1].snap.votes = <<>>
    /\ last[1].resp.status = 200
    /\ Len(votes) = 1
    /\ governanceProposals[<<"proposal-1">>].votesYes = 181
    /\ governanceProposals[<<"proposal-1">>].votesNo = 54

--------------------------------------------------------------------------
(* Properties of POST /api/decay *)

\* hours from lastActive of the user's row to the arrival of a request
ElapsedAt(s) == s.now - s.tokenBalances[DefaultUser].lastActive

\* C8: a POST /api/decay that arrives at most 24 hours after lastActive (24
\* included) applies no decay: its handler writes nothing, it is answered 200
\* with the message "No decay applied - user recently active", and when it has
\* answered alone the balance rows are as they were at its arrival.
C8_NoDecayWithinGrace ==
    /\ \A r \in Slots :
            ( /\ InFlight(r) /\ req[r].kind = "decay"
              /\ ElapsedAt(snap[r]) <= 24 ) => pc[r] = "dc_apply"
    /\ ( Exchanged("decay") /\ ElapsedAt(last[1].snap) <= 24 )
       => /\ last[1].resp.status = 200
          /\ last[1].resp.message = "No decay applied - user recently active"
          /\ last[1].alone => tokenBalances = last[1].snap.tokenBalances

\* C8, its case: a decay request exactly 24 hours after lastActive, answered
\* with the no-op message.
C8_Witness ==
    /\ Exchanged("decay")
    /\ last[1].alone
    /\ ElapsedAt(last[1].snap) = 24
    /\ last[1].resp.message = "No decay applied - user recently active"
    /\ tokenBalances = last[1].snap.tokenBalances

\* C9: a POST /api/decay that arrives h > 24 hours after lastActive and runs
\* alone is answered "Decay applied" with hoursOfDecay = h - 24 and
\* decayFactor = 0.99^(h - 24), and each of the three balances is its value at
\* the arrival times that one factor.
C9_DecayByFactor ==
    ( /\ Exchanged("decay")
      /\ last[1].alone
      /\ ElapsedAt(last[1].snap) > 24 )
    => LET k == ElapsedAt(last[1].snap) - 24
           before == last[1].snap.tokenBalances[DefaultUser]
           after == tokenBalances[DefaultUser]
       IN  /\ last[1].resp.status = 200
           /\ last[1].resp.message = "Decay applied"
           /\ last[1].resp.data[1].hoursOfDecay = k
           /\ last[1].resp.data[1].decayFactor = BalNorm([e \in {k} |-> 100])
           /\ \A f \in BalanceFields : after[f] = BalDecay(before[f], k)

\* C9, its case: 30 hours after lastActive the factor is 0.99^6 = 0.94148...,
\* and cow1Balance 125.7 has become 125.7 x 0.99^6.
C9_Witness ==
    /\ Exchanged("decay")
    /\ last[1].alone
    /\ ElapsedAt(last[1].snap) = 30
    /\ last[1].resp.data # <<>>
    /\ last[1].resp.data[1].hoursOfDecay = 6
    /\ Pow99Lo(6) >= 941480 /\ Pow99Hi(6) <= 941483
    /\ last[1].snap.tokenBalances[DefaultUser].cow1Balance = BalOf(JSNum(12570))
    /\ tokenBalances[DefaultUser].cow1Balance = BalNorm([e \in {6} |-> 12570])

\* C10: a POST /api/decay that runs alone right after another that applied a
\* decay of k = h - 24 hours alone, the clock not having moved and no labor log
\* having been posted between them, applies the decay of k hours again: each
\* balance is the value before the first request times 0.99^k times 0.99^k.
C10_DecayTwice ==
    ( /\ Exchanged("decay")
      /\ last[1].alone
      /\ last[1].snap.prevDecay # <<>> )
    => LET k == last[1].snap.prevDecay[1].hoursOfDecay
           original == last[1].snap.prevDecay[1].before
           after == tokenBalances[DefaultUser]
       IN  /\ k > 0
           /\ last[1].resp.message = "Decay applied"
           /\ last[1].resp.data[1].hoursOfDecay = k
           /\ \A f \in BalanceFields :
                after[f] = BalDecay(BalDecay(original[f], k), k)

\* C10, its case: two decay requests 30 hours after lastActive: cow1Balance
\* went from 125.7 to 125.7 x 0.99^12.
C10_Witness ==
    /\ Exchanged("decay")
    /\ last[1].alone
    /\ last[1].snap.prevDecay # <<>>
    /\ last[1].snap.prevDecay[1].hoursOfDecay = 6
    /\ last[1].snap.prevDecay[1].before.cow1Balance = BalOf(JSNum(12570))
    /\ tokenBalances[DefaultUser].cow1Balance = BalNorm([e \in {12} |-> 12570])

--------------------------------------------------------------------------
(* Further properties of the balance row *)

\* C11, between requests: a decay request that ran alone has left lastActive
\* as it was, whether it applied decay or not; a labor log answered 200 that
\* ran alone has set it to the time of the request.
C11_Exchange ==
    /\ ( Exchanged("decay") /\ last[1].alone )
       => tokenBalances[DefaultUser].lastActive =
            last[1].snap.tokenBalances[DefaultUser].lastActive
    /\ ( Exchanged("labor") /\ last[1].alone /\ last[1].resp.status = 200 )
       => tokenBalances[DefaultUser].lastActive = last[1].snap.now

\* C11, step by step: a step that changes lastActive of a row is the balance
\* update of a labor-log handler, and the new value is the time of its request.
C11_Step ==
    \A u \in DOMAIN tokenBalances :
        tokenBalances'[u].lastActive # tokenBalances[u].lastActive
        => \E r \in Slots :
                /\ req[r].kind = "labor"
                /\ pc[r] = "ll_updateTokenBalance"
                /\ pc'[r] = "ll_getUserStats"
                /\ tokenBalances'[u].lastActive = snap[r].now

\* C11: POST /api/decay never changes lastActive, whether it applies decay or
\* not; the only operation that changes it is a POST /api/labor-logs that goes
\* on to be answered with the log, and it sets it to the time of that request.
C11_LastActiveOnlyByLaborLog == []C11_Exchange /\ [][C11_Step]_vars

\* C11, its case: a labor log at hour 24 set lastActive to 24, and a decay
\* applied 30 hours later left it at 24.
C11_Witness ==
    /\ Exchanged("decay")
    /\ last[1].alone
    /\ last[1].resp.message = "Decay applied"
    /\ now = 54
    /\ laborLogs # <<>>
    /\ tokenBalances[DefaultUser].lastActive = 24

--------------------------------------------------------------------------
(* Further properties of POST /api/proposals/:id/vote *)

\* C12: a boolean vote on an id that names no proposal is answered 404, and
\* no Vote row is ever recorded for such an id.
C12_UnknownProposal404 ==
    /\ \A i \in 1..Len(votes) : votes[i].proposalId \in DOMAIN governanceProposals
    /\ ( /\ Exchanged("vote")
         /\ last[1].req.vote.type = "boolean"
         /\ last[1].req.proposalId \notin DOMAIN last[1].snap.governanceProposals )
       => last[1].resp.status = 404

--------------------------------------------------------------------------
(* Storage failures.  The handlers are written against IStorage, whose      *)
(* methods return promises; every handler wraps its body in try/catch.  A   *)
(* call that rejects changes nothing in the store, and the handler resumes  *)
(* in its catch block.                                                      *)

\* res.status(..).json of a catch block entered because a storage call threw
Fail(r, response, call) ==
    /\ pc' = [pc EXCEPT ![r] = "idle"]
    /\ req' = [req EXCEPT ![r] = Idle]
    /\ loc' = [loc EXCEPT ![r] = Idle]
    /\ snap' = [snap EXCEPT ![r] = Idle]
    /\ alone' = [alone EXCEPT ![r] = FALSE]
    /\ last' = <<[req |-> req[r], resp |-> response, snap |-> snap[r],
                  alone |-> alone[r], threw |-> call]>>

\* createLaborLog rejects: the body was valid, nothing is inserted.
LaborLogCreateFails(r, body) ==
    /\ nReq < MaxRequests
    /\ insertLaborLogSchemaAccepts(body)
    /\ Arrive(r, LaborLogRequest(body))
    /\ nReq' = nReq + 1
    /\ prevDecay' = <<>>
    /\ loc' = [loc EXCEPT ![r] = [kind |-> "labor", threw |-> "createLaborLog"]]
    /\ pc' = [pc EXCEPT ![r] = "ll_catch"]
    /\ UNCHANGED <<clientVars, authVars>>
    /\ UNCHANGED <<now, nVote, store>>

\* the storage call a suspended labor-log handler makes when it resumes
LaborLogNextCall(r) ==
    CASE pc[r] = "ll_getTokenBalance" -> <<"getTokenBalance">>
      [] pc[r] = "ll_updateTokenBalance" ->
            IF loc[r].currentBalance # <<>> THEN <<"updateTokenBalance">>
            ELSE <<"getUserStats">>
      [] pc[r] = "ll_getUserStats" -> <<"getUserStats">>
      [] pc[r] = "ll_updateUserStats" ->
            IF loc[r].currentStats # <<>> THEN <<"updateUserStats">> ELSE <<>>
      [] OTHER -> <<>>

\* the call the handler makes when it resumes rejects
LaborLogStorageFails(r) ==
    /\ LaborLogNextCall(r) # <<>>
    /\ loc' = [loc EXCEPT ![r] = [kind |-> "labor", threw |-> LaborLogNextCall(r)[1]]]
    /\ pc' = [pc EXCEPT ![r] = "ll_catch"]
    /\ UNCHANGED <<clientVars, authVars>>
    /\ UNCHANGED <<now, nReq, nVote, store, req, alone, snap, last, prevDecay>>

LaborLogCatch_Rollback(r) ==
    /\ pc[r] = "ll_catch"
    /\ Fail(r, Response(400, "Invalid labor log data", <<>>), loc[r].threw)
    /\ laborLogs' = IF loc[r].threw = "createLaborLog" THEN laborLogs
                    ELSE SubSeq(laborLogs, 1, Len(laborLogs) - 1)
    /\ UNCHANGED <<clientVars, authVars>>
    /\ UNCHANGED <<now, nReq, nVote, tokenBalances, userStats,
                   governanceProposals, votes, prevDecay>>

\* catch (error): res.status(400).json({ message: "Invalid labor log data" })
LaborLogCatch(r) ==
    /\ pc[r] = "ll_catch"
    /\ Fail(r, Response(400, "Invalid labor log data", <<>>), loc[r].threw)
    /\ UNCHANGED <<clientVars, authVars>>
    /\ UNCHANGED <<now, nReq, nVote, store, prevDecay>>

\* getTokenBalance of POST /api/decay rejects
DecayGetFails(r) ==
    /\ nReq < MaxRequests
    /\ Arrive(r, DecayRequest)
    /\ nReq' = nReq + 1
    /\ loc' = [loc EXCEPT ![r] = [kind |-> "decay", threw |-> "getTokenBalance"]]
    /\ pc' = [pc EXCEPT ![r] = "dc_catch"]
    /\ UNCHANGED <<clientVars, authVars>>
    /\ UNCHANGED <<now, nVote, store, prevDecay>>

\* updateTokenBalance of POST /api/decay rejects
DecayUpdateFails(r) ==
    /\ pc[r] = "dc_apply"
    /\ loc[r].balance # <<>>
    /\ decayIsDue(now - loc[r].balance[1].lastActive)
    /\ loc' = [loc EXCEPT ![r] = [kind |-> "decay", threw |-> "updateTokenBalance"]]
    /\ pc' = [pc EXCEPT ![r] = "dc_catch"]
    /\ UNCHANGED <<clientVars, authVars>>
    /\ UNCHANGED <<now, nReq, nVote, store, req, alone, snap, last, prevDecay>>

\* catch (error): res.status(500).json({ message: "Error applying decay" })
DecayCatch(r) ==
    /\ pc[r] = "dc_catch"
    /\ Fail(r, Response(500, "Error applying decay", <<>>), loc[r].threw)
    /\ UNCHANGED <<clientVars, authVars>>
    /\ UNCHANGED <<now, nReq, nVote, store, prevDecay>>

FaultBodies ==
    { LaborBody(<<"Teaching">>, Str(<<"5">>)),
      LaborBody(<<"Teaching">>, JNumber) }

\* The labor-log and decay endpoints over a store whose calls may fail
LaborFaultNext ==
    \/ \E d \in TickSteps : Tick(d)
    \/ \E r \in Slots :
        \/ \E body \in FaultBodies : LaborLogStart(r, body)
        \/ \E body \in FaultBodies : LaborLogCreateFails(r, body)
        \/ LaborLogGetTokenBalance(r)
        \/ LaborLogUpdateTokenBalance(r)
        \/ LaborLogGetUserStats(r)
        \/ LaborLogUpdateUserStats(r)
        \/ LaborLogRespond(r)
        \/ LaborLogStorageFails(r)
        \/ LaborLogCatch(r)
        \/ DecayStart(r)
        \/ DecayApply(r)
        \/ DecayRespond(r)
        \/ DecayGetFails(r)
        \/ DecayUpdateFails(r)
        \/ DecayCatch(r)

SpecLaborFault == Init /\ [][LaborFaultNext]_vars

\* an exchange in which a storage call threw
Threw == last # <<>> /\ "threw" \in DOMAIN last[1]

\* C13: a request during which a storage call threw is answered 500; so is a
\* POST /api/labor-logs with a valid body during which createLaborLog,
\* updateTokenBalance or updateUserStats threw.
C13_StorageFailure500 == Threw => last[1].resp.status = 500

--------------------------------------------------------------------------
(* The GET endpoints.  Each calls one storage method when the request       *)
(* arrives, awaits it, and answers with what the method returned.           *)

\* MemStorage.marketplaceItems: the sample items; no route writes the map.
marketplaceItems ==
    [i \in {<<"item-1">>, <<"item-2">>} |->
        [sellerId |-> DefaultUser,
         price |-> IF i = <<"item-1">> THEN <<"4", "5">> ELSE <<"1", "2", "0">>,
         isActive |-> TRUE]]

getUserLaborLogs_Recent(userId) ==
    SelectSeq(laborLogs,
              LAMBDA log : log.userId = userId /\ now - log.createdAt <= DecayThreshold)

getUserLaborLogs(userId) ==
    SelectSeq(laborLogs, LAMBDA log : log.userId = userId)

getActiveProposals_Unexpired ==
    {[id |-> p, row |-> governanceProposals[p]] :
        p \in {q \in DOMAIN governanceProposals :
                /\ governanceProposals[q].status \in {"active", "voting"}
                /\ governanceProposals[q].endTime > now}}

\* The rows are returned with their ids, in no particular order here.
getActiveProposals ==
    {[id |-> p, row |-> governanceProposals[p]] :
        p \in {q \in DOMAIN governanceProposals :
                governanceProposals[q].status \in {"active", "voting"}}}

getMarketplaceItems ==
    {[id |-> i, row |-> marketplaceItems[i]] :
        i \in {j \in DOMAIN marketplaceItems : marketplaceItems[j].isActive}}

GetRequest(endpoint) == [kind |-> "get", endpoint |-> endpoint]

\* From the arrival to the await: the storage method has returned result.
GetStart(r, endpoint, result) ==
    /\ nReq < MaxRequests
    /\ Arrive(r, GetRequest(endpoint))
    /\ nReq' = nReq + 1
    /\ loc' = [loc EXCEPT ![r] = [kind |-> "get", result |-> result]]
    /\ pc' = [pc EXCEPT ![r] = "get_respond"]
    /\ UNCHANGED <<clientVars, authVars>>
    /\ UNCHANGED <<now, nVote, store, prevDecay>>

\* res.json(rows)
GetRespond(r, endpoint) ==
    /\ pc[r] = "get_respond"
    /\ req[r].endpoint = endpoint
    /\ Send(r, Response(200, "", loc[r].result))
    /\ UNCHANGED <<clientVars, authVars>>
    /\ UNCHANGED <<now, nReq, nVote, store, prevDecay>>

\* if (!row) return res.status(404).json({ message }); res.json(row)
GetRowRespond(r, endpoint, message) ==
    /\ pc[r] = "get_respond"
    /\ req[r].endpoint = endpoint
    /\ IF loc[r].result = <<>>
       THEN Send(r, Response(404, message, <<>>))
       ELSE Send(r, Response(200, "", loc[r].result))
    /\ UNCHANGED <<clientVars, authVars>>
    /\ UNCHANGED <<now, nReq, nVote, store, prevDecay>>

BalancesStart_Decaying(r) ==
    /\ nReq < MaxRequests
    /\ Arrive(r, GetRequest("balances"))
    /\ nReq' = nReq + 1
    /\ loc' = [loc EXCEPT ![r] = [kind |-> "get",
                                  result |-> getTokenBalance(DefaultUser)]]
    /\ pc' = [pc EXCEPT ![r] = "get_respond"]
    /\ tokenBalances' =
        LET balance == tokenBalances[DefaultUser]
            hoursSinceActive == now - balance.lastActive
        IN  IF decayIsDue(hoursSinceActive)
            THEN updateTokenBalance(DefaultUser,
                    decayedBalances(balance, hoursOfDecay(hoursSinceActive)))
            ELSE tokenBalances
    /\ UNCHANGED <<clientVars, authVars>>
    /\ UNCHANGED <<now, nVote, laborLogs, userStats, governanceProposals,
                   votes, prevDecay>>

\* GET /api/balances
BalancesStart(r) == GetStart(r, "balances", getTokenBalance(DefaultUser))

BalancesRespond(r) == GetRowRespond(r, "balances", "Balance not found")

\* GET /api/stats
StatsStart(r) == GetStart(r, "stats", getUserStats(DefaultUser))

StatsRespond(r) == GetRowRespond(r, "stats", "Stats not found")

\* GET /api/labor-logs
LaborLogsStart(r) == GetStart(r, "labor-logs", getUserLaborLogs(DefaultUser))

LaborLogsRespond(r) == GetRespond(r, "labor-logs")

\* GET /api/proposals
ProposalsStart(r) == GetStart(r, "proposals", getActiveProposals)

ProposalsRespond(r) == GetRespond(r, "proposals")

\* GET /api/marketplace
MarketplaceStart(r) == GetStart(r, "marketplace", getMarketplaceItems)

MarketplaceRespond(r) == GetRespond(r, "marketplace")

\* 0.03 hours of Food Preparation: 0.03 x 11 x 1.5 is 0.495
ReadBodies ==
    { LaborBody(<<"Teaching">>, Str(<<"5">>)),
      LaborBody(<<"Storytelling">>, Str(<<"1", ".", "5">>)),
      Spread(LaborBody(<<"Food Preparation">>, Str(<<"0", ".", "0", "3">>)),
             ForgedFields) }

\* The GET endpoints beside the two endpoints that write the balance row and
\* the labor logs
ReadNext ==
    \/ \E d \in TickSteps : Tick(d)
    \/ \E r \in Slots :
        \/ BalancesStart(r)
        \/ BalancesRespond(r)
        \/ StatsStart(r)
        \/ StatsRespond(r)
        \/ LaborLogsStart(r)
        \/ LaborLogsRespond(r)
        \/ ProposalsStart(r)
        \/ ProposalsRespond(r)
        \/ MarketplaceStart(r)
        \/ MarketplaceRespond(r)
        \/ \E body \in ReadBodies : LaborLogStart(r, body)
        \/ LaborLogGetTokenBalance(r)
        \/ LaborLogUpdateTokenBalance(r)
        \/ LaborLogGetUserStats(r)
        \/ LaborLogUpdateUserStats(r)
        \/ LaborLogRespond(r)
        \/ DecayStart(r)
        \/ DecayApply(r)
        \/ DecayRespond(r)

SpecRead == Init /\ [][ReadNext]_vars

--------------------------------------------------------------------------
(* Properties of the GET endpoints *)

\* C14, step by step: a step that changes a balance row is the balance update
\* of a labor-log handler or of a decay handler; so no step of a GET handler
\* and no passing of time changes it.
C14_Step ==
    tokenBalances' # tokenBalances
    => \E r \in Slots :
            \/ req[r].kind = "labor" /\ pc[r] = "ll_updateTokenBalance"
                    /\ pc'[r] = "ll_getUserStats"
            \/ req[r].kind = "decay" /\ pc[r] = "dc_apply"
                    /\ pc'[r] = "dc_respond"

\* C14, between requests: a GET request that ran alone has left the balance
\* rows as they were at its arrival, and GET /api/balances has answered with
\* the stored row, however long ago lastActive was.
C14_Exchange ==
    ( Exchanged("get") /\ last[1].alone )
    => /\ tokenBalances = last[1].snap.tokenBalances
       /\ last[1].req.endpoint = "balances"
          => last[1].resp.data = <<last[1].snap.tokenBalances[DefaultUser]>>

\* C14: the stored balance row (the three balances and lastActive) changes
\* only through POST /api/labor-logs and POST /api/decay: the five GET
\* endpoints and the passing of time leave it unchanged, and reading the
\* balances after more than 24 hours of inactivity returns the stored values.
C14_BalanceRowFrame == []C14_Exchange /\ [][C14_Step]_vars

\* C14, its case: GET /api/balances 54 hours after lastActive has returned the
\* initial balances 125.7, 89.3 and 42.1, and they are still stored.
C14_Witness ==
    /\ Exchanged("get")
    /\ last[1].alone
    /\ last[1].req.endpoint = "balances"
    /\ ElapsedAt(last[1].snap) = 54
    /\ last[1].resp.data # <<>>
    /\ last[1].resp.data[1].cow1Balance = BalOf(JSNum(12570))
    /\ last[1].resp.data[1].cow2Balance = BalOf(JSNum(8930))
    /\ last[1].resp.data[1].cow3Balance = BalOf(JSNum(4210))
    /\ tokenBalances[DefaultUser] = last[1].resp.data[1]

\* C15, step by step: no step removes or changes a stored labor log.
C15_Step ==
    /\ Len(laborLogs') >= Len(laborLogs)
    /\ SubSeq(laborLogs', 1, Len(laborLogs)) = laborLogs

\* C15, between requests: GET /api/labor-logs has returned every log that was
\* stored when it arrived, with the fields it was created with.
C15_Exchange ==
    ( Exchanged("get") /\ last[1].req.endpoint = "labor-logs" )
    => /\ last[1].resp.status = 200
       /\ \A i \in 1..Len(last[1].snap.laborLogs) :
            \E j \in 1..Len(last[1].resp.data) :
                last[1].resp.data[j] = last[1].snap.laborLogs[i]
       /\ \A i \in 1..Len(last[1].snap.laborLogs) :
            laborLogs[i] = last[1].snap.laborLogs[i]

\* C15: labor logs are append-only: every log created earlier is still
\* returned by GET /api/labor-logs with the same field values, and the number
\* of stored logs never decreases.
C15_LogsAppendOnly == []C15_Exchange /\ [][C15_Step]_vars

\* C15, its case: a log of 5 hours of Teaching was created, and a later GET
\* /api/labor-logs has returned it as it was created.
C15_Witness ==
    /\ Exchanged("get")
    /\ last[1].req.endpoint = "labor-logs"
    /\ Len(last[1].resp.data) = 1
    /\ last[1].resp.data[1].hoursWorked = <<"5">>
    /\ last[1].resp.data[1].cowTokensEarned = <<"1", "0", "4", ".", "5">>
    /\ last[1].resp.data[1].id = <<"log", 1>>
    /\ laborLogs = last[1].resp.data

--------------------------------------------------------------------------
(* getLaborMultiplier and calculateCOWTokens called on their own *)

MaxHundredths == 2400

\* the ten categories, three names the table does not have, and two names
\* that every object inherits
CalcLaborTypes ==
    DOMAIN LABOR_INDEX \cup {<<"Gardening">>, <<"teaching">>, <<>>,
                             <<"constructor">>, <<"toString">>}

\* the multipliers of the table, and the default 1.0
TableMultipliers == {LABOR_INDEX[k] : k \in DOMAIN LABOR_INDEX} \cup {100}

\* calculateCOWTokens(hoursWorked, m) for every multiplier m
CalcRow(hoursWorked) ==
    [m \in TableMultipliers |-> calculateCOWTokens(JSNum(hoursWorked), JSNum(m))]

\* A call of getLaborMultiplier; last holds the call and what it returned.
CallGetLaborMultiplier(laborType) ==
    /\ last' = <<[req |-> [kind |-> "getLaborMultiplier", laborType |-> laborType],
                  resp |-> getLaborMultiplier(laborType)]>>
    /\ UNCHANGED <<clientVars, authVars>>
    /\ UNCHANGED <<now, nReq, nVote, store, pc, req, loc, alone, snap, prevDecay>>

\* Calls of calculateCOWTokens with every multiplier, for 0.01 hours and then
\* for 0.01 hours more than the calls before; last holds the hours, what the
\* calls returned and what the calls before returned.
CallCalculateCOWTokens(hoursWorked) ==
    /\ hoursWorked <= MaxHundredths
    /\ \/ hoursWorked = 1
       \/ /\ Exchanged("calculateCOWTokens")
          /\ last[1].req.hoursWorked = hoursWorked - 1
    /\ last' = <<[req |-> [kind |-> "calculateCOWTokens",
                           hoursWorked |-> hoursWorked],
                  resp |-> CalcRow(hoursWorked),
                  below |-> IF hoursWorked = 1 THEN <<>> ELSE <<last[1].resp>>]>>
    /\ UNCHANGED <<clientVars, authVars>>
    /\ UNCHANGED <<now, nReq, nVote, store, pc, req, loc, alone, snap, prevDecay>>

CalcNext ==
    \/ \E laborType \in CalcLaborTypes : CallGetLaborMultiplier(laborType)
    \/ \E hoursWorked \in 1..MaxHundredths : CallCalculateCOWTokens(hoursWorked)

SpecCalc == Init /\ [][CalcNext]_vars

\* C16: getLaborMultiplier returns the table value for each of the ten
\* categories (Art Creation 1.8, Care Work 2.0, Teaching 1.9, Community
\* Building 1.7, Cultural Preservation 2.1, Environmental Work 1.6, Healing &
\* Wellness 1.8, Traditional Crafts 1.9, Storytelling 1.7, Food Preparation
\* 1.5) and the number 1.0 for every other string.
C16_MultiplierOrDefault ==
    Exchanged("getLaborMultiplier")
    => LET t == last[1].req.laborType
       IN  last[1].resp =
             JSNum(CASE t \in {<<"Cultural Preservation">>} -> 210
                     [] t \in {<<"Care Work">>} -> 200
                     [] t \in {<<"Teaching">>, <<"Traditional Crafts">>} -> 190
                     [] t \in {<<"Art Creation">>, <<"Healing & Wellness">>} -> 180
                     [] t \in {<<"Community Building">>, <<"Storytelling">>} -> 170
                     [] t \in {<<"Environmental Work">>} -> 160
                     [] t \in {<<"Food Preparation">>} -> 150
                     [] OTHER -> 100)

\* C17: for all hours from 0.01 to 24 with two decimals and every multiplier
\* of the table or 1.0, calculateCOWTokens is hours * 11 * multiplier rounded
\* to two decimals (a half rounded up).
C17_TokensRounded ==
    Exchanged("calculateCOWTokens")
    => \A m \in {100, 150, 160, 170, 180, 190, 200, 210} :
          last[1].resp[m] = JSNum((last[1].req.hoursWorked * 11 * m + 50) \div 100)

\* C18: calculateCOWTokens increases (weakly) with the multiplier, for all
\* hours, and with the hours, for every multiplier: 0.01 hours more never
\* give less, hence neither do any more hours.
C18_Monotone ==
    Exchanged("calculateCOWTokens")
    => /\ \A m \in TableMultipliers : last[1].resp[m].kind = "number"
       /\ \A m1, m2 \in TableMultipliers :
            m1 < m2 => last[1].resp[m1].v <= last[1].resp[m2].v
       /\ \A m \in TableMultipliers :
            last[1].below # <<>> => last[1].below[1][m].v <= last[1].resp[m].v

\* C18, its case: 3 hours at 2.0 give 66, which is more than 2.99 hours at
\* 2.0 gave and less than 3 hours at 2.1 give.
C18_Witness ==
    /\ Exchanged("calculateCOWTokens")
    /\ last[1].req.hoursWorked = 300
    /\ last[1].resp[200] = JSNum(6600)
    /\ last[1].below # <<>>
    /\ last[1].below[1][200].v < 6600
    /\ last[1].resp[210].v > 6600

--------------------------------------------------------------------------
(* GET /api/proposals over proposals of every status *)

MaxProposals == 2

\* status: text("status"), "active, voting, passed, rejected"
ProposalStatuses == {"active", "voting", "passed", "rejected"}

\* endTime of a new proposal: 24 or 120 hours after the server started
ProposalEndTimes == {24, 120}

\* MemStorage.createProposal: { ...proposal, id: randomUUID(), votesYes: 0,
\* votesNo: 0 }.  No route calls it; it is the one way a proposal is stored
\* after construction.
createProposal(proposal) ==
    LET id == <<"uuid", Cardinality(DOMAIN governanceProposals) + 1>>
    IN  /\ Cardinality(DOMAIN governanceProposals) < 2 + MaxProposals
        /\ governanceProposals' =
              [p \in DOMAIN governanceProposals \cup {id} |->
                  IF p = id THEN Spread(proposal, [votesYes |-> 0, votesNo |-> 0])
                  ELSE governanceProposals[p]]
        /\ UNCHANGED <<now, nReq, nVote, laborLogs, tokenBalances, userStats,
                       votes, pc, req, loc, alone, snap, last, prevDecay,
                       clientVars, authVars>>

ProposalsNext ==
    \/ \E d \in TickSteps : Tick(d)
    \/ \E status \in ProposalStatuses, endTime \in ProposalEndTimes :
            createProposal([status |-> status, endTime |-> endTime])
    \/ \E r \in Slots :
        \/ ProposalsStart(r)
        \/ ProposalsRespond(r)

SpecProposals == Init /\ [][ProposalsNext]_vars

\* C19: GET /api/proposals returns exactly the proposals stored at its arrival
\* whose status is "active" or "voting": none with another status, and none
\* of those two statuses left out, whether its endTime has passed or not.
C19_ActiveOrVoting ==
    ( Exchanged("get") /\ last[1].req.endpoint = "proposals" )
    => LET stored == last[1].snap.governanceProposals
       IN  /\ last[1].resp.status = 200
           /\ \A p \in DOMAIN stored :
                stored[p].status \in {"active", "voting"}
                <=> [id |-> p, row |-> stored[p]] \in last[1].resp.data
           /\ \A e \in last[1].resp.data :
                e.id \in DOMAIN stored /\ e.row = stored[e.id]

\* C19, its case: 54 hours after the start, with a passed and a voting
\* proposal stored whose endTime was at 24 hours, GET /api/proposals has
\* returned the voting one, the two sample proposals (the endTime of
\* proposal-1 was at 48 hours), and not the passed one.
C19_Witness ==
    /\ Exchanged("get")
    /\ last[1].req.endpoint = "proposals"
    /\ last[1].snap.now = 54
    /\ \E p, q \in DOMAIN last[1].snap.governanceProposals :
        LET stored == last[1].snap.governanceProposals
        IN  /\ stored[p].status = "passed" /\ stored[p].endTime = 24
            /\ stored[q].status = "voting" /\ stored[q].endTime = 24
            /\ [id |-> q, row |-> stored[q]] \in last[1].resp.data
            /\ [id |-> p, row |-> stored[p]] \notin last[1].resp.data
    /\ \E e \in last[1].resp.data : e.id = <<"proposal-1">> /\ e.row.endTime = 48
    /\ Cardinality(last[1].resp.data) = 3

--------------------------------------------------------------------------
(* Vote requests in flight at the same time *)

\* the handlers that have inserted their Vote row on proposal p with this
\* vote and have not yet written the counters
VotePending(p, vote) ==
    {r \in Slots : /\ pc[r] \in {"v_getProposal", "v_updateProposalVotes"}
                   /\ req[r].proposalId = p
                   /\ (req[r].vote.s = <<"true">>) = vote}

VoteRowsOn(p, vote) ==
    {i \in 1..Len(votes) : votes[i].proposalId = p /\ votes[i].vote = vote}

\* C20 as stated: a handler writes back totals made from the counters that
\* getProposal gave it, so two handlers that both read 180/54 each write one
\* more than 180/54 and one increment is lost.
C20_StaleStep ==
    \A r \in Slots :
        ( pc[r] = "v_updateProposalVotes" /\ pc'[r] = "v_respond" )
        => LET p == req[r].proposalId
               yes == req[r].vote.s = <<"true">>
           IN  /\ governanceProposals'[p].votesYes =
                    loc[r].seen[1].votesYes + (IF yes THEN 1 ELSE 0)
               /\ governanceProposals'[p].votesNo =
                    loc[r].seen[1].votesNo + (IF yes THEN 0 ELSE 1)

C20_IncrementDropped == [][C20_StaleStep]_vars

\* C20, amended: no increment is dropped.  The counters of a proposal are
\* the ones it started with (180/54 and 97/59) plus the Vote rows inserted on
\* it, less the rows of the handlers that have not yet written: when two
\* requests on one proposal were in flight together and both have written,
\* the total has risen by two.
C20_NoIncrementDropped ==
    \A p \in DOMAIN governanceProposals :
        LET first == IF p = <<"proposal-1">> THEN [votesYes |-> 180, votesNo |-> 54]
                     ELSE [votesYes |-> 97, votesNo |-> 59]
        IN  /\ governanceProposals[p].votesYes =
                 first.votesYes + Cardinality(VoteRowsOn(p, TRUE))
                                - Cardinality(VotePending(p, TRUE))
            /\ governanceProposals[p].votesNo =
                 first.votesNo + Cardinality(VoteRowsOn(p, FALSE))
                               - Cardinality(VotePending(p, FALSE))

\* C20, its case: two requests on proposal-1 were in flight together, both
\* were given the counters 180/54 by getProposal, both have written, two Vote
\* rows are stored and the total is 236.
C20_Witness ==
    \E r1, r2 \in Slots :
        /\ r1 # r2
        /\ pc[r1] = "v_respond" /\ pc[r2] = "v_respond"
        /\ req[r1].proposalId = <<"proposal-1">>
        /\ req[r2].proposalId = <<"proposal-1">>
        /\ loc[r1].seen = loc[r2].seen
        /\ loc[r1].seen[1].votesYes + loc[r1].seen[1].votesNo = 234
        /\ Len(votes) = 2
        /\ governanceProposals[<<"proposal-1">>].votesYes
           + governanceProposals[<<"proposal-1">>].votesNo = 236

--------------------------------------------------------------------------
(* Requests on the balance row in flight at the same time *)

\* C21: the balance update of POST /api/labor-logs is a read-modify-write
\* that is not atomic: what a handler writes as cow1Balance is the cow1Balance
\* of the row getTokenBalance gave it plus its own reward, whatever the row
\* holds by then.
C21_Step ==
    \A r \in Slots :
        ( pc[r] = "ll_updateTokenBalance" /\ pc'[r] = "ll_getUserStats" )
        => tokenBalances'[DefaultUser].cow1Balance =
              BalAdd(loc[r].currentBalance[1].cow1Balance,
                     BalOf(loc[r].cowTokensEarned))

C21_ReadModifyWrite == [][C21_Step]_vars

\* C21, its case: two requests for 5 hours of Teaching were in flight
\* together, both were given the row with 125.7, both have written, two logs
\* of 104.5 each are stored and cow1Balance is 230.2: one reward, not two.
C21_Witness ==
    \E r1, r2 \in Slots :
        /\ r1 # r2
        /\ pc[r1] = "ll_getUserStats" /\ pc[r2] = "ll_getUserStats"
        /\ loc[r1].currentBalance = loc[r2].currentBalance
        /\ loc[r1].currentBalance[1].cow1Balance = BalOf(JSNum(12570))
        /\ loc[r1].cowTokensEarned = JSNum(10450)
        /\ loc[r2].cowTokensEarned = JSNum(10450)
        /\ Len(laborLogs) = 2
        /\ tokenBalances[DefaultUser].cow1Balance = BalOf(JSNum(23020))

--------------------------------------------------------------------------
(* A storage failure inside POST /api/labor-logs, and GET /api/labor-logs *)

LaborFaultReadNext ==
    \/ LaborFaultNext
    \/ \E r \in Slots : LaborLogsStart(r)
    \/ \E r \in Slots : LaborLogsRespond(r)

SpecLaborFaultRead == Init /\ [][LaborFaultReadNext]_vars

\* C22, step by step: no step takes a stored labor log away again.
C22_Step ==
    /\ Len(laborLogs') >= Len(laborLogs)
    /\ SubSeq(laborLogs', 1, Len(laborLogs)) = laborLogs

\* C22, between requests: a POST /api/labor-logs that ran alone and whose
\* updateTokenBalance threw has been answered with an error status and without
\* the log, has left the balance row and the user stats as they were and the
\* log it created stored; and a GET /api/labor-logs has returned every log
\* stored at its arrival.
C22_Exchange ==
    /\ ( /\ Threw
         /\ last[1].req.kind = "labor"
         /\ last[1].threw = "updateTokenBalance"
         /\ last[1].alone )
       => LET before == last[1].snap
          IN  /\ last[1].resp.status >= 400
              /\ last[1].resp.data = <<>>
              /\ tokenBalances = before.tokenBalances
              /\ userStats = before.userStats
              /\ Len(laborLogs) = Len(before.laborLogs) + 1
              /\ SubSeq(laborLogs, 1, Len(before.laborLogs)) = before.laborLogs
              /\ laborLogs[Len(laborLogs)].laborType
                    = last[1].req.body["laborType"].s
              /\ laborLogs[Len(laborLogs)].hoursWorked
                    = last[1].req.body["hoursWorked"].s
    /\ ( Exchanged("get") /\ last[1].req.endpoint = "labor-logs" )
       => /\ last[1].resp.status = 200
          /\ last[1].resp.data = last[1].snap.laborLogs

\* C22: when the balance update fails after createLaborLog has succeeded, the
\* labor log stays persisted and is returned by later GET /api/labor-logs,
\* cow1Balance and the user stats are unchanged, and the request is answered
\* with an error status and not with the created log.
C22_LogKeptOnFailure == []C22_Exchange /\ [][C22_Step]_vars

\* C22, its case: updateTokenBalance threw in a request for 5 hours of
\* Teaching; it was answered 400, the log of 104.5 is stored and cow1Balance is
\* still 125.7.
C22_Witness ==
    /\ Threw
    /\ last[1].req.kind = "labor"
    /\ last[1].threw = "updateTokenBalance"
    /\ last[1].alone
    /\ last[1].resp.status = 400
    /\ Len(laborLogs) = 1
    /\ laborLogs[1].cowTokensEarned = <<"1", "0", "4", ".", "5">>
    /\ tokenBalances[DefaultUser].cow1Balance = BalOf(JSNum(12570))
    /\ tokenBalances[DefaultUser].lastActive = 0

--------------------------------------------------------------------------
(* The tally between requests *)

\* C23: when no vote request is in flight, every stored proposal has gained
\* as many votesYes over its initial votesYes (180 for proposal-1, 97 for
\* proposal-2) as there are Vote rows on it with vote = true, and as many
\* votesNo over its initial votesNo (54, 59) as there are rows with vote =
\* false.
C23_TallyConsistent ==
    ( \A r \in Slots : ~InFlight(r) )
    => \A p \in DOMAIN governanceProposals :
          LET yesRows == {i \in 1..Len(votes) :
                            votes[i].proposalId = p /\ votes[i].vote}
              noRows == {i \in 1..Len(votes) :
                            votes[i].proposalId = p /\ ~votes[i].vote}
          IN  /\ governanceProposals[p].votesYes
                    - (IF p = <<"proposal-1">> THEN 180 ELSE 97)
                 = Cardinality(yesRows)
              /\ governanceProposals[p].votesNo
                    - (IF p = <<"proposal-1">> THEN 54 ELSE 59)
                 = Cardinality(noRows)

\* C23, its case: no request is in flight, a yes on proposal-1 and a no on
\* proposal-2 were recorded: 181/54 and 97/60.
C23_Witness ==
    /\ \A r \in Slots : ~InFlight(r)
    /\ Len(votes) = 2
    /\ \E i, j \in 1..2 :
        /\ votes[i].proposalId = <<"proposal-1">> /\ votes[i].vote
        /\ votes[j].proposalId = <<"proposal-2">> /\ ~votes[j].vote
    /\ governanceProposals[<<"proposal-1">>].votesYes = 181
    /\ governanceProposals[<<"proposal-1">>].votesNo = 54
    /\ governanceProposals[<<"proposal-2">>].votesYes = 97
    /\ governanceProposals[<<"proposal-2">>].votesNo = 60

--------------------------------------------------------------------------
(* POST /api/decay and POST /api/labor-logs in flight at the same time *)

\* C24: a decay never erases a labor credit.  Once the requests have completed
\* and one labor log with reward r is stored, cow1Balance, which was b = 125.7
\* at the start, is b + r, (b + r) x f or b x f + r for a decay factor f =
\* 0.99^h, and never b x f alone.
C24_CreditNotErased ==
    ( /\ \A r \in Slots : ~InFlight(r)
      /\ Len(laborLogs) = 1
      /\ parseFloat(laborLogs[1].cowTokensEarned).kind = "number" )
    => LET b == BalOf(JSNum(12570))
           reward == BalOf(parseFloat(laborLogs[1].cowTokensEarned))
       IN  \E h \in 0..MaxNow :
              tokenBalances[DefaultUser].cow1Balance
                \in {BalAdd(b, reward),
                     BalDecay(BalAdd(b, reward), h),
                     BalAdd(BalDecay(b, h), reward)}

--------------------------------------------------------------------------
(* POST /api/decay after a labor log *)

\* C25: a POST /api/decay that arrives, with no other request in flight, at
\* most 24 hours after the latest labor log was created applies no decay: it
\* is answered with the no-op message and the balance rows are as they were at
\* its arrival, however long before that labor log lastActive had been.
C25_NoDecayAfterLaborLog ==
    ( /\ Exchanged("decay")
      /\ last[1].alone
      /\ last[1].snap.laborLogs # <<>>
      /\ last[1].snap.now
           - last[1].snap.laborLogs[Len(last[1].snap.laborLogs)].createdAt <= 24 )
    => /\ last[1].resp.status = 200
       /\ last[1].resp.message = "No decay applied - user recently active"
       /\ tokenBalances = last[1].snap.tokenBalances

\* C25, its case: the user had been inactive for 30 hours when a labor log was
\* posted; a decay request 24 hours after it (54 hours after the start) has
\* been answered with the no-op message and the balances are unchanged.
C25_Witness ==
    /\ Exchanged("decay")
    /\ last[1].alone
    /\ Len(last[1].snap.laborLogs) = 1
    /\ last[1].snap.laborLogs[1].createdAt = 30
    /\ last[1].snap.now = 54
    /\ last[1].snap.tokenBalances[DefaultUser].lastActive = 30
    /\ last[1].resp.message = "No decay applied - user recently active"
    /\ tokenBalances = last[1].snap.tokenBalances

--------------------------------------------------------------------------
(* client/src/hooks/use-offline.ts: the hook useOffline in one component.  *)
(* setState takes effect when it is called, and the component has drawn    *)
(* itself again before it next calls a callback: the callbacks it calls    *)
(* close over the current state.  The effect that registers handleOnline   *)
(* and handleOffline has no dependencies: it runs after the first render   *)
(* only, and handleOnline calls the syncPendingActions of that render.     *)
(* isOfflineMode, timestamp and data take no part in queueing and sending  *)
(* and are left out.                                                       *)

MAX_RETRY_COUNT == 3

MaxActions == 2
MaxSyncs == 5
SyncRuns == {1, 2}

ActionTypes == {"labor-log", "vote", "marketplace-purchase"}

serverVars == <<now, nReq, nVote, laborLogs, tokenBalances, userStats,
                governanceProposals, votes, pc, req, loc, alone, snap, last,
                prevDecay>>

NoRun == [pc |-> "idle"]

\* saveOfflineData: the stored item, parsed, with the fields of data put over it
saveOfflineData(data) ==
    <<Spread(IF localStorage = <<>> THEN <<>> ELSE localStorage[1], data)>>

\* The first render and its effects: useState with navigator.onLine, the
\* effect that loads the stored item, the effect that registers the handlers.
Mount ==
    /\ mounted = <<>>
    /\ LET first == [isOnline |-> navigatorOnLine, pendingActions |-> <<>>,
                     lastSync |-> <<>>]
           parsed == localStorage[1]
           loaded == IF localStorage = <<>> THEN first
                     ELSE [first EXCEPT
                            !.pendingActions =
                                IF "pendingActions" \in DOMAIN parsed
                                THEN parsed.pendingActions ELSE <<>>,
                            !.lastSync =
                                IF "lastSync" \in DOMAIN parsed
                                THEN parsed.lastSync ELSE <<>>]
       IN  /\ mounted' = <<first>>
           /\ state' = loaded
    /\ runs' = [k \in SyncRuns |-> NoRun]
    /\ UNCHANGED <<navigatorOnLine, localStorage, sent, nAction, nSync,
                   serverVars, authVars>>

\* if (!state.isOnline || state.pendingActions.length === 0) return;
syncReturnsAtOnce(closure) == ~closure.isOnline \/ closure.pendingActions = <<>>

FreeRun(k) == runs[k].pc = "idle" /\ \A o \in SyncRuns : runs[o].pc = "idle" => ~(o < k)

\* syncPendingActions up to its first await: the snapshot of the pending
\* actions of its closure, and the fetch of the first of them.  queuedBefore
\* keeps how many actions had been queued by then, for the properties.
StartRun(k, closure) ==
    /\ runs' = [runs EXCEPT ![k] =
                  [pc |-> "fetch", actionsToSync |-> closure.pendingActions,
                   i |-> 1, successful |-> <<>>, failed |-> <<>>,
                   queuedBefore |-> nAction]]
    /\ sent' = [sent EXCEPT ![closure.pendingActions[1].id] = @ + 1]

\* The 'offline' event: handleOffline
GoOffline ==
    /\ navigatorOnLine
    /\ navigatorOnLine' = FALSE
    /\ IF mounted # <<>> THEN state' = [state EXCEPT !.isOnline = FALSE]
       ELSE UNCHANGED state
    /\ UNCHANGED <<mounted, localStorage, runs, sent, nAction, nSync,
                   serverVars, authVars>>

\* The 'online' event: handleOnline sets isOnline and calls the
\* syncPendingActions of the first render.
GoOnline ==
    /\ ~navigatorOnLine
    /\ navigatorOnLine' = TRUE
    /\ IF mounted = <<>> THEN UNCHANGED <<state, runs, sent>>
       ELSE /\ state' = [state EXCEPT !.isOnline = TRUE]
            /\ IF syncReturnsAtOnce(mounted[1]) THEN UNCHANGED <<runs, sent>>
               ELSE \E k \in SyncRuns : FreeRun(k) /\ StartRun(k, mounted[1])
    /\ UNCHANGED <<mounted, localStorage, nAction, nSync,
                   serverVars, authVars>>

\* queueOfflineAction: the new action is appended in the state and the new
\* list is saved.
queueOfflineAction(type) ==
    /\ mounted # <<>>
    /\ nAction < MaxActions
    /\ nAction' = nAction + 1
    /\ LET newAction == [id |-> nAction + 1, type |-> type, retryCount |-> 0]
           updated == Append(state.pendingActions, newAction)
       IN  /\ state' = [state EXCEPT !.pendingActions = updated]
           /\ localStorage' = saveOfflineData([pendingActions |-> updated])
    /\ sent' = Append(sent, 0)
    /\ UNCHANGED <<navigatorOnLine, mounted, runs, nSync,
                   serverVars, authVars>>

\* The component calls the syncPendingActions it holds.
syncPendingActions(k) ==
    /\ mounted # <<>>
    /\ nSync < MaxSyncs
    /\ nSync' = nSync + 1
    /\ FreeRun(k)
    /\ ~syncReturnsAtOnce(state)
    /\ StartRun(k, state)
    /\ UNCHANGED <<navigatorOnLine, mounted, state, localStorage,
                   nAction, serverVars, authVars>>

\* After the fetch of an action has settled: the fetch of the next one, or
\* after the last one setState({ pendingActions: failed, lastSync }) and
\* saveOfflineData.
SyncContinue(k, successful, failed) ==
    IF runs[k].i < Len(runs[k].actionsToSync)
    THEN /\ runs' = [runs EXCEPT ![k].i = @ + 1, ![k].successful = successful,
                                 ![k].failed = failed]
         /\ sent' = [sent EXCEPT ![runs[k].actionsToSync[runs[k].i + 1].id] = @ + 1]
         /\ UNCHANGED <<state, localStorage>>
    ELSE /\ runs' = [runs EXCEPT ![k] = NoRun]
         /\ state' = [state EXCEPT !.pendingActions = failed,
                                   !.lastSync = <<"date">>]
         /\ localStorage' = saveOfflineData([pendingActions |-> failed,
                                             lastSync |-> <<"date">>])
         /\ UNCHANGED sent

\* The fetch resolves (with whatever status): successful.push(action.id)
SyncFetchResolves(k) ==
    /\ mounted # <<>>
    /\ runs[k].pc = "fetch"
    /\ navigatorOnLine
    /\ SyncContinue(k, Append(runs[k].successful, runs[k].actionsToSync[runs[k].i].id),
                    runs[k].failed)
    /\ UNCHANGED <<navigatorOnLine, mounted, nAction, nSync,
                   serverVars, authVars>>

\* The fetch rejects: the action is kept with retryCount + 1 while its
\* retryCount is below MAX_RETRY_COUNT.
SyncFetchRejects(k) ==
    /\ mounted # <<>>
    /\ runs[k].pc = "fetch"
    /\ LET action == runs[k].actionsToSync[runs[k].i]
       IN  SyncContinue(k, runs[k].successful,
                IF action.retryCount < MAX_RETRY_COUNT
                THEN Append(runs[k].failed,
                            [action EXCEPT !.retryCount = @ + 1])
                ELSE runs[k].failed)
    /\ UNCHANGED <<navigatorOnLine, mounted, nAction, nSync,
                   serverVars, authVars>>

OfflineNext ==
    \/ Mount
    \/ GoOffline
    \/ GoOnline
    \/ \E type \in ActionTypes : queueOfflineAction(type)
    \/ \E k \in SyncRuns :
        \/ syncPendingActions(k)
        \/ SyncFetchResolves(k)
        \/ SyncFetchRejects(k)

SpecOffline == Init /\ [][OfflineNext]_vars

\* C26: when the 'online' event fires, the actions that are pending by then
\* are sent: a syncPendingActions run starts on them.
C26_Step ==
    ( /\ ~navigatorOnLine /\ navigatorOnLine'
      /\ mounted # <<>>
      /\ state.pendingActions # <<>> )
    => \E k \in SyncRuns :
          /\ runs[k].pc = "idle"
          /\ runs'[k].pc = "fetch"
          /\ runs'[k].actionsToSync = state.pendingActions

C26_SyncOnOnline == [][C26_Step]_vars

\* C27: an action queued while a syncPendingActions run was in progress is
\* not lost: when the run writes its result, every pending action that was
\* queued after the run took its snapshot is still pending and still in the
\* stored copy.
C27_Step ==
    \A k \in SyncRuns :
        ( mounted # <<>> /\ runs[k].pc = "fetch" /\ runs'[k].pc = "idle" )
        => \A i \in 1..Len(state.pendingActions) :
              state.pendingActions[i].id > runs[k].queuedBefore
              => /\ \E n \in 1..Len(state'.pendingActions) :
                        state'.pendingActions[n] = state.pendingActions[i]
                 /\ \E n \in 1..Len(localStorage'[1].pendingActions) :
                        localStorage'[1].pendingActions[n] = state.pendingActions[i]

C27_QueuedDuringSyncKept == [][C27_Step]_vars

\* C28: no pending action has a retryCount above 3, and no action is sent
\* more than 4 times.
C28_RetryBound ==
    /\ mounted # <<>> =>
          \A i \in 1..Len(state.pendingActions) :
              state.pendingActions[i].retryCount <= 3
    /\ \A id \in 1..Len(sent) : sent[id] <= 4

--------------------------------------------------------------------------
(* server/auth.ts: the sessions of AuthService.  Times are in hours, as    *)
(* now is.  createSession, validateSession and logout are written against  *)
(* a sessions table with the columns userId, token and expiresAt; a call   *)
(* is suspended at each await and the other calls and the clock go on.     *)

\* 7 * 24 * 60 * 60 * 1000 ms
SessionLifetime == 7 * 24

\* expiresIn: '7d'
JwtExpiresIn == 7 * 24

MaxCalls == 4
MaxAuthNow == 192
AuthTickSteps == {48, 144}

\* The rows of the users table
AuthUsers == {<<"user-1">>}

\* A JWT that was not signed with JWT_SECRET
BadToken == [userId |-> <<"user-1">>, sessionToken |-> 0, exp |-> 1000]

requestVars == <<nReq, nVote, laborLogs, tokenBalances, userStats,
                 governanceProposals, votes, pc, req, loc, alone, snap, last,
                 prevDecay>>

\* A row of the sessions table as AuthService writes and reads it
SessionRow(userId, token, expiresAt) ==
    [userId |-> userId, token |-> token, expiresAt |-> expiresAt]

\* jwt.sign(payload, JWT_SECRET, { expiresIn: '7d' }): exp counts from the
\* time of signing
jwtSign(payload) ==
    [userId |-> payload.userId, sessionToken |-> payload.sessionToken,
     exp |-> now + JwtExpiresIn]

\* jwt.verify(token, JWT_SECRET): <<payload>>, or <<>> where it throws: the
\* token was not signed with the secret, or the time has reached its exp
jwtVerify(token) ==
    IF token \notin issued \/ now >= token.exp THEN <<>>
    ELSE <<[userId |-> token.userId, sessionToken |-> token.sessionToken]>>

\* db.select().from(sessions).where(and(eq(sessions.token, sessionToken),
\* eq(sessions.userId, userId))).limit(1)
selectSession(sessionToken, userId) ==
    LET rows == {s \in sessions : s.token = sessionToken /\ s.userId = userId}
    IN  IF rows = {} THEN <<>> ELSE <<CHOOSE s \in rows : TRUE>>

\* db.select().from(users).where(eq(users.id, userId)).limit(1)
selectUser(userId) == IF userId \in AuthUsers THEN <<[id |-> userId]>> ELSE <<>>

\* What the session lookup of validateSession is about: a row with the
\* token and the user id of the JWT whose expiresAt is not in the past
sessionRowValid(token) ==
    \E s \in sessions :
        /\ s.token = token.sessionToken
        /\ s.userId = token.userId
        /\ s.expiresAt >= now

\* generateSecureToken: a token no earlier call has drawn
generateSecureToken ==
    Cardinality(issued)
        + Cardinality({k \in Slots : calls[k].kind = "createSession"}) + 1

\* The slot a new call takes: the lowest that holds no suspended call
FreeCall(k) == calls[k] = Idle /\ \A o \in Slots : calls[o] = Idle => ~(o < k)

AuthReturn(kind, token, value, afterLogout, rowAtLookup) ==
    returned' = [kind |-> kind, token |-> token, value |-> value,
                 afterLogout |-> afterLogout, rowAtLookup |-> rowAtLookup]

\* The clock, which also moves while calls are suspended
AuthTick(d) ==
    /\ now + d <= MaxAuthNow
    /\ now' = now + d
    /\ UNCHANGED <<authVars, requestVars, clientVars>>

\* createSession up to await db.insert: the token and expiresAt
createSession(k, userId) ==
    /\ nCall < MaxCalls
    /\ FreeCall(k)
    /\ nCall' = nCall + 1
    /\ calls' = [calls EXCEPT ![k] =
                   [kind |-> "createSession", userId |-> userId,
                    token |-> generateSecureToken,
                    expiresAt |-> now + SessionLifetime]]
    /\ UNCHANGED <<now, sessions, issued, revoked, returned, requestVars,
                   clientVars>>

\* The insert, and after it return jwt.sign({ userId, sessionToken: token })
CreateSessionInsert(k) ==
    /\ calls[k].kind = "createSession"
    /\ LET c == calls[k]
           signed == jwtSign([userId |-> c.userId, sessionToken |-> c.token])
       IN  /\ sessions' = sessions \cup
                            {SessionRow(c.userId, c.token, c.expiresAt)}
           /\ issued' = issued \cup {signed}
           /\ AuthReturn("createSession", signed, <<signed>>, FALSE, FALSE)
    /\ calls' = [calls EXCEPT ![k] = Idle]
    /\ UNCHANGED <<now, revoked, nCall, requestVars, clientVars>>

\* validateSession up to the await of the session lookup: jwt.verify, whose
\* throw is caught and returns null
validateSession(k, token) ==
    /\ nCall < MaxCalls
    /\ FreeCall(k)
    /\ nCall' = nCall + 1
    /\ IF jwtVerify(token) = <<>>
       THEN /\ AuthReturn("validateSession", token, <<>>, token \in revoked,
                          FALSE)
            /\ UNCHANGED calls
       ELSE /\ calls' = [calls EXCEPT ![k] =
                          [kind |-> "validateSession", pc |-> "session",
                           token |-> token, decoded |-> jwtVerify(token)[1],
                           afterLogout |-> token \in revoked,
                           rowAtLookup |-> FALSE]]
            /\ UNCHANGED returned
    /\ UNCHANGED <<now, sessions, issued, revoked, requestVars, clientVars>>

\* The session lookup: if (!session || session.expiresAt < new Date())
\* return null; otherwise the await of the user lookup
ValidateSessionSelect(k) ==
    /\ calls[k].kind = "validateSession"
    /\ calls[k].pc = "session"
    /\ LET c == calls[k]
           session == selectSession(c.decoded.sessionToken, c.decoded.userId)
       IN  IF session = <<>> \/ session[1].expiresAt < now
           THEN /\ AuthReturn("validateSession", c.token, <<>>, c.afterLogout,
                              sessionRowValid(c.token))
                /\ calls' = [calls EXCEPT ![k] = Idle]
           ELSE /\ calls' = [calls EXCEPT ![k].pc = "user",
                               ![k].rowAtLookup = sessionRowValid(c.token)]
                /\ UNCHANGED returned
    /\ UNCHANGED <<now, sessions, issued, revoked, nCall, requestVars,
                   clientVars>>

\* The user lookup: return user || null
ValidateSessionUser(k) ==
    /\ calls[k].kind = "validateSession"
    /\ calls[k].pc = "user"
    /\ LET c == calls[k]
       IN  AuthReturn("validateSession", c.token, selectUser(c.decoded.userId),
                      c.afterLogout, c.rowAtLookup)
    /\ calls' = [calls EXCEPT ![k] = Idle]
    /\ UNCHANGED <<now, sessions, issued, revoked, nCall, requestVars,
                   clientVars>>

\* logout up to await db.delete: jwt.verify, whose throw is caught and ends
\* the call
logout(k, token) ==
    /\ nCall < MaxCalls
    /\ FreeCall(k)
    /\ nCall' = nCall + 1
    /\ IF jwtVerify(token) = <<>>
       THEN /\ revoked' = revoked \cup {token}
            /\ AuthReturn("logout", token, <<>>, FALSE, FALSE)
            /\ UNCHANGED calls
       ELSE /\ calls' = [calls EXCEPT ![k] =
                          [kind |-> "logout", token |-> token,
                           decoded |-> jwtVerify(token)[1]]]
            /\ UNCHANGED <<revoked, returned>>
    /\ UNCHANGED <<now, sessions, issued, requestVars, clientVars>>

LogoutDelete_Others(k) ==
    /\ calls[k].kind = "logout"
    /\ sessions' = {s \in sessions : s.token = calls[k].decoded.sessionToken}
    /\ revoked' = revoked \cup {calls[k].token}
    /\ AuthReturn("logout", calls[k].token, <<>>, FALSE, FALSE)
    /\ calls' = [calls EXCEPT ![k] = Idle]
    /\ UNCHANGED <<now, issued, nCall, requestVars, clientVars>>

\* db.delete(sessions).where(eq(sessions.token, decoded.sessionToken)), and
\* the call is over
LogoutDelete(k) ==
    /\ calls[k].kind = "logout"
    /\ sessions' = {s \in sessions : s.token # calls[k].decoded.sessionToken}
    /\ revoked' = revoked \cup {calls[k].token}
    /\ AuthReturn("logout", calls[k].token, <<>>, FALSE, FALSE)
    /\ calls' = [calls EXCEPT ![k] = Idle]
    /\ UNCHANGED <<now, issued, nCall, requestVars, clientVars>>

AuthNext ==
    \/ \E d \in AuthTickSteps : AuthTick(d)
    \/ \E k \in Slots :
        \/ \E userId \in AuthUsers : createSession(k, userId)
        \/ CreateSessionInsert(k)
        \/ \E token \in issued \cup {BadToken} : validateSession(k, token)
        \/ ValidateSessionSelect(k)
        \/ ValidateSessionUser(k)
        \/ \E token \in issued \cup {BadToken} : logout(k, token)
        \/ LogoutDelete(k)

SpecAuth == Init /\ [][AuthNext]_vars

====
